---- MODULE Spec2Model ----
(***************************************************************************)
(* A model of the multi-layer highlight iterator of go-tree-sitter-        *)
(* highlight: iterator.next, emitEvents, sortLayers, insertLayer, the      *)
(* layer sort key and the layer constructor, as they are written in the    *)
(* source.  The parser and the query engine are the environment: a parse   *)
(* is modelled by the stream of captures the query yields on its tree.     *)
(***************************************************************************)
EXTENDS Integers, Sequences, FiniteSets, TLC

(***************************************************************************)
(* Bounds of the model.                                                    *)
(***************************************************************************)
\* length of the generated sources, in bytes
SrcLen == 3
\* most captures in the capture stream of the root layer
MaxCaps == 2
\* most captures in the capture stream of an injected layer
MaxInjCaps == 1
\* deepest layer whose stream may still hold injection captures
MaxDepth == 1

(***************************************************************************)
(* Pointers: nil is the empty sequence, a non-nil pointer is a one-element *)
(* sequence holding the value pointed to.                                  *)
(***************************************************************************)
Nil == <<>>
Ptr(v) == <<v>>
Deref(p) == p[1]

\* ^uint(0), the largest value of the model's integers
MaxUint == 2147483647

Last(s) == s[Len(s)]
Front(s) == SubSeq(s, 1, Len(s) - 1)

(***************************************************************************)
(* Events (highlight.go: eventSource, eventLayerStart, eventLayerEnd,      *)
(* eventCaptureStart, eventCaptureEnd).  nilEvent is the nil interface     *)
(* value that emitEvents(offset, nil) carries in its variadic slice.       *)
(***************************************************************************)
eventSource(s, e) == [type |-> "Source", StartByte |-> s, EndByte |-> e]
eventLayerStart(name) == [type |-> "LayerStart", LanguageName |-> name]
eventLayerEnd == [type |-> "LayerEnd"]
eventCaptureStart(h) == [type |-> "CaptureStart", Highlight |-> h]
eventCaptureEnd == [type |-> "CaptureEnd"]
nilEvent == [type |-> "nil"]

(***************************************************************************)
(* The query of the model's configurations.  NewConfiguration compiles the *)
(* concatenation injections ++ locals ++ highlights; a pattern's index is  *)
(* its position in that concatenation, counted from 0 as in the code       *)
(* (pattern k is QueryPatterns[k + 1]).  Language names are byte strings.  *)
(***************************************************************************)
captureInjectionLanguage == "injection.language"
captureInjectionSelf == "injection.self"
captureInjectionParent == "injection.parent"
captureInjectionIncludeChildren == "injection.include-children"
captureLocalScopeInherits == "local.scope-inherits"

\* capture names are kept as their dot-separated parts
nameInjectionContent == <<"injection", "content">>
nameInjectionLanguage == <<"injection", "language">>
nameLocalScope == <<"local", "scope">>
nameLocalDefinition == <<"local", "definition">>
nameLocalDefinitionValue == <<"local", "definition-value">>
nameLocalReference == <<"local", "reference">>

QueryPatterns ==
  << [section |-> "injections", capture |-> nameInjectionContent, negLocal |-> FALSE,
      settings |-> <<[Key |-> captureInjectionLanguage, Value |-> <<"A">>]>>],
     [section |-> "injections", capture |-> nameInjectionContent, negLocal |-> FALSE,
      settings |-> <<[Key |-> captureInjectionLanguage, Value |-> <<"B">>]>>],
     [section |-> "injections", capture |-> nameInjectionContent, negLocal |-> FALSE,
      settings |-> <<[Key |-> captureInjectionLanguage, Value |-> <<"N">>]>>],
     [section |-> "injections", capture |-> nameInjectionContent, negLocal |-> FALSE,
      settings |-> <<[Key |-> captureInjectionParent, Value |-> <<>>]>>],
     [section |-> "injections", capture |-> nameInjectionContent, negLocal |-> FALSE,
      settings |-> <<[Key |-> captureInjectionSelf, Value |-> <<>>]>>],
     [section |-> "injections", capture |-> nameInjectionContent, negLocal |-> FALSE,
      settings |-> <<[Key |-> captureInjectionSelf, Value |-> <<>>],
                     [Key |-> captureInjectionLanguage, Value |-> <<"A">>]>>],
     [section |-> "injections", capture |-> nameInjectionContent, negLocal |-> FALSE,
      settings |-> <<[Key |-> captureInjectionIncludeChildren, Value |-> <<>>],
                     [Key |-> captureInjectionLanguage, Value |-> <<"A">>],
                     [Key |-> captureInjectionParent, Value |-> <<>>]>>],
     [section |-> "locals", capture |-> nameLocalScope, negLocal |-> FALSE,
      settings |-> <<>>],
     [section |-> "locals", capture |-> nameLocalScope, negLocal |-> FALSE,
      settings |-> <<[Key |-> captureLocalScopeInherits, Value |-> "false"]>>],
     [section |-> "locals", capture |-> nameLocalDefinition, negLocal |-> FALSE,
      settings |-> <<>>],
     [section |-> "locals", capture |-> nameLocalReference, negLocal |-> FALSE,
      settings |-> <<>>],
     [section |-> "highlights", capture |-> <<"variable">>, negLocal |-> FALSE,
      settings |-> <<>>],
     [section |-> "highlights", capture |-> <<"variable", "parameter">>, negLocal |-> FALSE,
      settings |-> <<>>],
     [section |-> "highlights", capture |-> <<"function">>, negLocal |-> TRUE,
      settings |-> <<>>],
     [section |-> "highlights", capture |-> <<"comment">>, negLocal |-> FALSE,
      settings |-> <<>>] >>

\* query.CaptureNames(): capture index k is CaptureNames[k + 1]
CaptureNames ==
  << nameInjectionContent, nameInjectionLanguage, nameLocalScope, nameLocalDefinition,
     nameLocalReference, <<"variable">>, <<"variable", "parameter">>, <<"function">>,
     <<"comment">> >>

\* the names the caller passes to Configure; Highlight j is RecognizedNames[j + 1]
RecognizedNames == << <<"variable">>, <<"variable", "parameter">>, <<"function">> >>

PatternCount == Len(QueryPatterns)
PatternIndices == 0 .. (PatternCount - 1)
PatternAt(p) == QueryPatterns[p + 1]

\* index of a capture name, nil when the query has no capture of that name
CaptureIndexOf(name) ==
  IF \E k \in 1..Len(CaptureNames) : CaptureNames[k] = name
  THEN Ptr((CHOOSE k \in 1..Len(CaptureNames) : CaptureNames[k] = name) - 1)
  ELSE Nil

\* slices.Index(names, name): the first position of name, -1 (here nil) when absent
IndexIn(names, name) ==
  IF \E j \in 1..Len(names) : names[j] = name
  THEN Ptr((CHOOSE j \in 1..Len(names) :
              names[j] = name /\ \A i \in 1..(j - 1) : names[i] # name) - 1)
  ELSE Nil

\* Configure for one capture name without the walk over its prefixes
configureNameExact(recognizedNames, captureName) == IndexIn(recognizedNames, captureName)

\* the loop of Configure for one capture name: try the name, then cut it at its
\* last dot, until a recognised name is found or no dot is left
RECURSIVE configureName(_, _)
configureName(recognizedNames, captureName) ==
  IF IndexIn(recognizedNames, captureName) # Nil
  THEN IndexIn(recognizedNames, captureName)
  ELSE IF Len(captureName) <= 1
       THEN Nil
       ELSE configureName(recognizedNames, Front(captureName))

\* Configuration.Configure on a query with these capture names:
\* HighlightIndices[i], for capture index i
ConfigureOver(captureNames, recognizedNames) ==
  [i \in 0..(Len(captureNames) - 1) |-> configureName(recognizedNames, captureNames[i + 1])]

\* Configure on the query of the model's configurations
Configure(recognizedNames) == ConfigureOver(CaptureNames, recognizedNames)

\* NewConfiguration on the model's query, before the language name is filled in
\* NewConfiguration's loop over the patterns: true is appended for a pattern
\* with a negative predicate on the property local
RECURSIVE nonLocalVariablePatterns(_)
nonLocalVariablePatterns(patterns) ==
  IF patterns = <<>>
  THEN <<>>
  ELSE IF Last(patterns).negLocal
  THEN Append(nonLocalVariablePatterns(Front(patterns)), TRUE)
  ELSE nonLocalVariablePatterns(Front(patterns))

QueryConfiguration ==
  [ LanguageName |-> <<>>,
    CombinedInjectionsQuery |-> Nil,
    LocalsPatternIndex |->
      Cardinality({p \in PatternIndices : PatternAt(p).section = "injections"}),
    HighlightsPatternIndex |->
      Cardinality({p \in PatternIndices : PatternAt(p).section # "highlights"}),
    HighlightIndices |-> Configure(RecognizedNames),
    NonLocalVariablePatterns |-> nonLocalVariablePatterns(QueryPatterns),
    InjectionContentCaptureIndex |-> CaptureIndexOf(nameInjectionContent),
    InjectionLanguageCaptureIndex |-> CaptureIndexOf(nameInjectionLanguage),
    LocalScopeCaptureIndex |-> CaptureIndexOf(nameLocalScope),
    LocalDefCaptureIndex |-> CaptureIndexOf(nameLocalDefinition),
    LocalDefValueCaptureIndex |-> CaptureIndexOf(nameLocalDefinitionValue),
    LocalRefCaptureIndex |-> CaptureIndexOf(nameLocalReference) ]

\* the Configuration of a language; layers hold the language name as the handle
Configuration(languageName) == [QueryConfiguration EXCEPT !.LanguageName = languageName]

\* query.PropertySettings(patternIndex)
PropertySettings(patternIndex) == PatternAt(patternIndex).settings

RootLanguage == <<"r">>
\* the languages whose grammar the parser rejects (Parser.SetLanguage fails)
IncompatibleLanguages == {<<"B">>}
\* the caller's injection callback: a configuration for the languages it knows,
\* nil for any other name
InjectionCallback(languageName) ==
  IF languageName \in {<<"A">>, <<"B">>} THEN Ptr(Configuration(languageName)) ELSE Nil

(***************************************************************************)
(* Nodes, matches and capture streams.  A node is its byte range; a match  *)
(* is [id, PatternIndex, Captures], a capture [Index, Node]; an item of a  *)
(* capture stream is (match, index of the capture within the match), the   *)
(* index counted from 1.                                                   *)
(***************************************************************************)
Node(s, e) == [StartByte |-> s, EndByte |-> e]
NodeRange(n) == [StartByte |-> n.StartByte, EndByte |-> n.EndByte]
ItemCapture(item) == item.match.Captures[item.index]
ItemNode(item) == ItemCapture(item).Node

\* a match of pattern p whose only capture is the pattern's capture, on node n
SingleMatch(p, n) ==
  [ id |-> <<p, n.StartByte, n.EndByte>>,
    PatternIndex |-> p,
    Captures |-> <<[Index |-> Deref(CaptureIndexOf(PatternAt(p).capture)), Node |-> n]>> ]
SingleItem(p, n) == [match |-> SingleMatch(p, n), index |-> 1]

\* the nodes of a tree nest or are disjoint
Compatible(m, n) ==
  \/ m.EndByte <= n.StartByte
  \/ n.EndByte <= m.StartByte
  \/ (m.StartByte <= n.StartByte /\ n.EndByte <= m.EndByte)
  \/ (n.StartByte <= m.StartByte /\ m.EndByte <= n.EndByte)

\* the order in which the query engine delivers captures: by start byte, an
\* enclosing node before the nodes it encloses, and for one node by pattern index
Before(a, b) ==
  LET m == ItemNode(a)
      n == ItemNode(b)
  IN \/ m.StartByte < n.StartByte
     \/ (m.StartByte = n.StartByte /\ m.EndByte > n.EndByte)
     \/ (m = n /\ a.match.PatternIndex < b.match.PatternIndex)

ExtendStreams(S, cands) ==
  S \cup UNION { { Append(s, c) : c \in
                     { d \in cands : \A k \in 1..Len(s) :
                         Before(s[k], d) /\ Compatible(ItemNode(s[k]), ItemNode(d)) } }
                 : s \in S }

\* the capture streams of at most n items over the candidate items
RECURSIVE StreamsUpTo(_, _)
StreamsUpTo(n, cands) ==
  IF n = 0 THEN {<<>>} ELSE ExtendStreams(StreamsUpTo(n - 1, cands), cands)

\* the non-empty nodes within the bytes lo..hi
NodesWithin(lo, hi) == { n \in [StartByte : lo..hi, EndByte : lo..hi] : n.StartByte < n.EndByte }

(***************************************************************************)
(* The layer sort key (iter_layer.go).                                     *)
(***************************************************************************)
\* a comparison of the offsets alone
compareOffsets(k, other) ==
  IF k.offset < other.offset THEN -1
  ELSE IF k.offset > other.offset THEN 1
  ELSE 0

\* sortKey.compare
compare(k, other) ==
  IF k.offset < other.offset THEN -1
  ELSE IF k.offset > other.offset THEN 1
  ELSE IF ~k.start /\ other.start THEN -1
  ELSE IF k.start /\ ~other.start THEN 1
  ELSE IF k.depth < other.depth THEN -1
  ELSE IF k.depth > other.depth THEN 1
  ELSE 0

greaterThan(k, other) == compare(k, other) = 1
lessThan(k, other) == compare(k, other) = -1

\* queryCapturesIter.peek on a layer's stream: the next item, if any
peek(captures) == IF Len(captures) > 0 THEN Ptr(Head(captures)) ELSE Nil

\* a sort key that is the capture's start also when the pending end is at the
\* same offset
sortKeyStartFirst(layer) ==
  LET depth == 0 - layer.Depth
      nextStart == IF peek(layer.Captures) # Nil
                   THEN Ptr(ItemNode(Deref(peek(layer.Captures))).StartByte)
                   ELSE Nil
      nextEnd == IF Len(layer.HighlightEndStack) > 0
                 THEN Ptr(Last(layer.HighlightEndStack))
                 ELSE Nil
  IN IF nextStart # Nil /\ (nextEnd = Nil \/ Deref(nextStart) <= Deref(nextEnd))
     THEN Ptr([offset |-> Deref(nextStart), start |-> TRUE, depth |-> depth])
     ELSE IF nextEnd # Nil
     THEN Ptr([offset |-> Deref(nextEnd), start |-> FALSE, depth |-> depth])
     ELSE Nil

\* iterLayer.sortKey: nil, or a pointer to (offset, start, depth)
sortKey(layer) ==
  LET depth == 0 - layer.Depth
      nextStart == IF peek(layer.Captures) # Nil
                   THEN Ptr(ItemNode(Deref(peek(layer.Captures))).StartByte)
                   ELSE Nil
      nextEnd == IF Len(layer.HighlightEndStack) > 0
                 THEN Ptr(Last(layer.HighlightEndStack))
                 ELSE Nil
  IN IF nextStart # Nil /\ nextEnd # Nil
     THEN IF Deref(nextStart) < Deref(nextEnd)
          THEN Ptr([offset |-> Deref(nextStart), start |-> TRUE, depth |-> depth])
          ELSE Ptr([offset |-> Deref(nextEnd), start |-> FALSE, depth |-> depth])
     ELSE IF nextStart # Nil
     THEN Ptr([offset |-> Deref(nextStart), start |-> TRUE, depth |-> depth])
     ELSE IF nextEnd # Nil
     THEN Ptr([offset |-> Deref(nextEnd), start |-> FALSE, depth |-> depth])
     ELSE Nil

(***************************************************************************)
(* sortLayers and insertLayer.  Layers is the list of layer pointers; tab  *)
(* maps a pointer to the layer it points to.                               *)
(***************************************************************************)
\* rotateLeft(s, i) seen by its value alone: s[i:] followed by s[:i]
rotateLeft(s, i) == SubSeq(s, i + 1, Len(s)) \o SubSeq(s, 1, i)

\* Go: h.Layers = append(rotateLeft(h.Layers[:i+1], 1), h.Layers[i+1:]...)
\* mem is the backing array of h.Layers: its Len(layers) elements and `spare`
\* further slots.  rotateLeft appends s[:1] to s[1:], a slice of i elements whose
\* capacity is that of the array less one: when that holds i+1 elements the append
\* writes in place, into the slot after the rotated prefix.  h.Layers[i+1:] is read
\* afterwards, from the same array.
rotateSplice(layers, i, spare) ==
  LET mem0 == layers \o [k \in 1..spare |-> Nil]
      inPlace == i + 1 <= Len(mem0) - 1
      mem1 == IF inPlace THEN [mem0 EXCEPT ![i + 2] = mem0[1]] ELSE mem0
      rotated == IF inPlace THEN SubSeq(mem1, 2, i + 2)
                 ELSE rotateLeft(SubSeq(mem0, 1, i + 1), 1)
      rest == SubSeq(mem1, i + 2, Len(layers))
  IN rotated \o rest

\* the inner loop of sortLayers: how far layers[0] moves
passes(nextOffsetKey, key) == nextOffsetKey # Nil /\ greaterThan(Deref(nextOffsetKey), key)

RECURSIVE sortAdvance(_, _, _, _)
sortAdvance(layers, key, tab, i) ==
  IF i + 1 < Len(layers) /\ passes(sortKey(tab[layers[i + 2]]), key)
  THEN sortAdvance(layers, key, tab, i + 1)
  ELSE i

\* the head has a key: it moves behind the i layers it passed
sortRotate(layers, pool, i) ==
  [Layers |-> IF i > 0 THEN rotateSplice(layers, i, 0) ELSE layers, cursors |-> pool]

\* iterator.sortLayers; the result is the new h.Layers and the cursor pool
RECURSIVE sortLayers(_, _, _)
sortHead(layers, pool, tab, key) ==
  IF key # Nil
  THEN sortRotate(layers, pool, sortAdvance(layers, Deref(key), tab, 0))
  ELSE sortLayers(Tail(layers), Append(pool, tab[layers[1]].Cursor), tab)

sortLayers(layers, pool, tab) ==
  IF Len(layers) = 0
  THEN [Layers |-> layers, cursors |-> pool]
  ELSE sortHead(layers, pool, tab, sortKey(tab[layers[1]]))

\* iterator.sortLayers on a list whose array has spare elements behind it
RECURSIVE sortLayersSpare(_, _, _, _)
sortLayersSpare(layers, pool, tab, spare) ==
  IF Len(layers) = 0
  THEN [Layers |-> layers, cursors |-> pool]
  ELSE LET key == sortKey(tab[layers[1]])
           i == sortAdvance(layers, Deref(key), tab, 0)
       IN IF key # Nil
          THEN [Layers |-> IF i > 0 THEN rotateSplice(layers, i, spare) ELSE layers,
                cursors |-> pool]
          ELSE sortLayersSpare(Tail(layers), Append(pool, tab[layers[1]].Cursor), tab, spare)

\* slices.Insert(s, i, v) and slices.Delete(s, i, i+1), i counted from 0
slicesInsert(s, i, v) == SubSeq(s, 1, i) \o <<v>> \o SubSeq(s, i + 1, Len(s))
slicesDelete(s, i) == SubSeq(s, 1, i) \o SubSeq(s, i + 2, Len(s))

RECURSIVE insertLoop(_, _, _, _, _)
insertAt(layers, layer, key, tab, i, keyI) ==
  IF keyI # Nil
  THEN IF lessThan(Deref(keyI), key)
       THEN slicesInsert(layers, i, layer)
       ELSE insertLoop(layers, layer, key, tab, i + 1)
  ELSE insertLoop(slicesDelete(layers, i), layer, key, tab, i)

insertLoop(layers, layer, key, tab, i) ==
  IF i < Len(layers)
  THEN insertAt(layers, layer, key, tab, i, sortKey(tab[layers[i + 1]]))
  ELSE Append(layers, layer)

insertKeyed(layers, layer, tab, key) ==
  IF key # Nil THEN insertLoop(layers, layer, Deref(key), tab, 1) ELSE layers

\* iterator.insertLayer; layer is the pointer of the new layer
insertLayer(layers, layer, tab) == insertKeyed(layers, layer, tab, sortKey(tab[layer]))

(***************************************************************************)
(* emitEvents, without its closing sortLayers (the actions apply it).      *)
(***************************************************************************)
\* emitEvents with a Source event that leaves ByteOffset where it was
emitEventsKeepingOffset(byteOffset, nextEvents, offset, events) ==
  IF byteOffset < offset
  THEN [result |-> eventSource(byteOffset, offset),
        ByteOffset |-> byteOffset,
        NextEvents |-> nextEvents \o events]
  ELSE [result |-> events[1],
        ByteOffset |-> byteOffset,
        NextEvents |-> IF Len(events) > 1 THEN nextEvents \o Tail(events) ELSE nextEvents]

emitEvents(byteOffset, nextEvents, offset, events) ==
  IF byteOffset < offset
  THEN [result |-> eventSource(byteOffset, offset),
        ByteOffset |-> offset,
        NextEvents |-> nextEvents \o events]
  ELSE [result |-> events[1],
        ByteOffset |-> byteOffset,
        NextEvents |-> IF Len(events) > 1 THEN nextEvents \o Tail(events) ELSE nextEvents]

(***************************************************************************)
(* Injections.                                                             *)
(***************************************************************************)
\* Node.Utf8Text(source)
Utf8Text(node, src) == SubSeq(src, node.StartByte + 1, node.EndByte)

\* the first loop of injectionForMatch: a later capture overwrites an earlier one
RECURSIVE injectionCaptures(_, _, _, _, _)
injectionCaptures(config, captures, src, languageName, contentNode) ==
  IF captures = <<>>
  THEN [languageName |-> languageName, contentNode |-> contentNode]
  ELSE LET capture == Head(captures)
       IN IF capture.Index = Deref(config.InjectionLanguageCaptureIndex)
          THEN injectionCaptures(config, Tail(captures), src,
                                 Utf8Text(capture.Node, src), contentNode)
          ELSE IF capture.Index = Deref(config.InjectionContentCaptureIndex)
          THEN injectionCaptures(config, Tail(captures), src,
                                 languageName, Ptr(capture.Node))
          ELSE injectionCaptures(config, Tail(captures), src, languageName, contentNode)

\* the second loop of injectionForMatch, over the pattern's property settings
RECURSIVE injectionProperties(_, _, _, _, _)
injectionProperties(config, parentName, settings, languageName, includeChildren) ==
  IF settings = <<>>
  THEN [languageName |-> languageName, includeChildren |-> includeChildren]
  ELSE LET property == Head(settings)
       IN IF property.Key = captureInjectionLanguage
          THEN injectionProperties(config, parentName, Tail(settings),
                 IF languageName = <<>> THEN property.Value ELSE languageName,
                 includeChildren)
          ELSE IF property.Key = captureInjectionSelf
          THEN injectionProperties(config, parentName, Tail(settings),
                 IF languageName = <<>> THEN config.LanguageName ELSE languageName,
                 includeChildren)
          ELSE IF property.Key = captureInjectionParent
          THEN injectionProperties(config, parentName, Tail(settings),
                 IF languageName = <<>> THEN parentName ELSE languageName,
                 includeChildren)
          ELSE IF property.Key = captureInjectionIncludeChildren
          THEN injectionProperties(config, parentName, Tail(settings), languageName, TRUE)
          ELSE injectionProperties(config, parentName, Tail(settings),
                                   languageName, includeChildren)

\* injectionForMatch: (languageName, contentNode, includeChildren)
injectionResult(contentNode, q) ==
  [languageName |-> q.languageName,
   contentNode |-> contentNode,
   includeChildren |-> q.includeChildren]

\* an injectionForMatch whose property settings come before the text of the
\* injection.language capture
injectionOfPropertiesFirst(config, parentName, match, c) ==
  injectionResult(c.contentNode,
                  injectionProperties(config, parentName,
                                      PropertySettings(match.PatternIndex) \o
                                        <<[Key |-> captureInjectionLanguage,
                                           Value |-> c.languageName]>>,
                                      <<>>, FALSE))

injectionOf(config, parentName, match, c) ==
  injectionResult(c.contentNode,
                  injectionProperties(config, parentName,
                                      PropertySettings(match.PatternIndex),
                                      c.languageName, FALSE))

injectionForMatch(config, parentName, match, src) ==
  IF config.InjectionContentCaptureIndex = Nil \/ config.InjectionLanguageCaptureIndex = Nil
  THEN [languageName |-> <<>>, contentNode |-> Nil, includeChildren |-> FALSE]
  ELSE injectionOf(config, parentName, match,
                   injectionCaptures(config, match.Captures, src, <<>>, Nil))

\* intersectRanges as it is compiled: the range of the first node
intersectRanges(parentRanges, nodes, includesChildren) == <<NodeRange(nodes[1])>>

\* intersectRanges of highlight.go.  it is the state of the loops: the parent
\* range looked at, the parent ranges after it, the result, and done once the
\* function has returned from within the loops.
\* "if len(parentRanges) > 0 { parentRange = parentRanges[0] ... } else { return result }"
nextParent(it) ==
  IF Len(it.parentRanges) > 0
  THEN [it EXCEPT !.parentRange = Head(it.parentRanges), !.parentRanges = Tail(it.parentRanges)]
  ELSE [it EXCEPT !.done = TRUE]

\* r after "if r.StartByte < parentRange.StartByte"
clipStart(r, parentRange) ==
  IF r.StartByte < parentRange.StartByte
  THEN [r EXCEPT !.StartByte = parentRange.StartByte]
  ELSE r

\* the result with the range [startByte, endByte) appended if it is not empty
appendRange(it, startByte, endByte) ==
  IF startByte < endByte
  THEN [it EXCEPT !.result = Append(@, [StartByte |-> startByte, EndByte |-> endByte])]
  ELSE it

\* "for parentRange.StartByte <= r.EndByte"
RECURSIVE overParents(_, _)
overParents(it, r) ==
  IF it.done \/ ~(it.parentRange.StartByte <= r.EndByte)
  THEN it
  ELSE IF it.parentRange.EndByte > r.StartByte
  THEN IF it.parentRange.EndByte < clipStart(r, it.parentRange).EndByte
       THEN overParents(
              nextParent(appendRange(it, clipStart(r, it.parentRange).StartByte,
                                     it.parentRange.EndByte)),
              [r EXCEPT !.StartByte = it.parentRange.EndByte])
       ELSE appendRange(it, clipStart(r, it.parentRange).StartByte, r.EndByte)
  ELSE overParents(nextParent(it), r)

\* "for _, excludedRange := range excludedRanges": precedingEnd is
\* precedingRange.EndByte
RECURSIVE overExcluded(_, _, _)
overExcluded(it, precedingEnd, excludedRanges) ==
  IF it.done \/ excludedRanges = <<>>
  THEN it
  ELSE IF Head(excludedRanges).StartByte < it.parentRange.StartByte
  THEN overExcluded(it, Head(excludedRanges).EndByte, Tail(excludedRanges))
  ELSE overExcluded(overParents(it, [StartByte |-> precedingEnd,
                                     EndByte |-> Head(excludedRanges).StartByte]),
                    Head(excludedRanges).EndByte, Tail(excludedRanges))

\* the excluded ranges of a node: its children unless they are included, and
\* the range that follows the node
excludedRangesOf(node, includesChildren) ==
  (IF includesChildren THEN <<>> ELSE node.Children)
    \o <<[StartByte |-> node.EndByte, EndByte |-> MaxUint]>>

\* "for _, node := range nodes"
RECURSIVE overNodes(_, _, _)
overNodes(it, nodes, includesChildren) ==
  IF it.done \/ nodes = <<>>
  THEN it
  ELSE overNodes(overExcluded(it, Head(nodes).StartByte,
                              excludedRangesOf(Head(nodes), includesChildren)),
                 Tail(nodes), includesChildren)

IntersectRanges(parentRanges, nodes, includesChildren) ==
  overNodes([parentRange |-> Head(parentRanges), parentRanges |-> Tail(parentRanges),
             result |-> <<>>, done |-> FALSE],
            nodes, includesChildren).result

\* injectionsByPatternIndex as make() leaves it: one zero injectionItem a pattern
emptyGroups ==
  [p \in 1..PatternCount |-> [languageName |-> <<>>, nodes |-> <<>>, includeChildren |-> FALSE]]

\* the body of the loop over the matches of the combined injections query: the
\* language is assigned to the group when it is empty
groupMatch(groups, match, inj) ==
  [groups EXCEPT ![match.PatternIndex + 1] =
     [languageName |-> IF inj.languageName = <<>> THEN inj.languageName ELSE @.languageName,
      nodes |-> IF inj.contentNode # Nil THEN Append(@.nodes, Deref(inj.contentNode))
                ELSE @.nodes,
      includeChildren |-> inj.includeChildren]]

RECURSIVE groupMatches(_, _, _, _, _)
groupMatches(config, parentName, matches, src, groups) ==
  IF matches = <<>>
  THEN groups
  ELSE groupMatches(config, parentName, Tail(matches), src,
                    groupMatch(groups, Head(matches),
                               injectionForMatch(config, parentName, Head(matches), src)))

\* the loop over injectionsByPatternIndex: the items appended to the queue
RECURSIVE enqueueGroups(_, _, _, _)
enqueueGroups(groups, queue, depth, ranges) ==
  IF groups = <<>>
  THEN queue
  ELSE enqueueGroups(Tail(groups),
         IF /\ Head(groups).languageName # <<>>
            /\ Len(Head(groups).nodes) > 0
            /\ InjectionCallback(Head(groups).languageName) # Nil
            /\ Len(intersectRanges(ranges, Head(groups).nodes,
                                   Head(groups).includeChildren)) > 0
         THEN Append(queue,
                [config |-> Deref(InjectionCallback(Head(groups).languageName)).LanguageName,
                 depth |-> depth + 1,
                 ranges |-> intersectRanges(ranges, Head(groups).nodes,
                                            Head(groups).includeChildren)])
         ELSE queue,
         depth, ranges)

\* "Process combined injections": the queue after the block, for the matches of
\* config.CombinedInjectionsQuery
combinedInjections(config, parentName, matches, src, depth, ranges, queue) ==
  enqueueGroups(groupMatches(config, parentName, matches, src, emptyGroups),
                queue, depth, ranges)

\* next, queue = queue[0], append(queue, queue[1:]...)
dequeue(queue) == [next |-> queue[1], queue |-> queue \o Tail(queue)]

\* QueryMatch.Remove: the captures of the match still to come leave the stream
Remove(captures, match) ==
  SelectSeq(captures, LAMBDA item : item.match.id # match.id)

\* Highlighter.popCursor: the cursor taken and the pool left; made counts the
\* cursors NewQueryCursor has created
popCursor(pool, made) ==
  IF Len(pool) = 0
  THEN [cursor |-> made + 1, cursors |-> pool, made |-> made + 1]
  ELSE [cursor |-> Last(pool), cursors |-> Front(pool), made |-> made]

\* the root scope a layer starts with
rootScope ==
  [Inherits |-> FALSE, Range |-> [StartByte |-> 0, EndByte |-> MaxUint], LocalDefs |-> <<>>]

\* newIterLayers for a configuration without combined injections, whose parse
\* yields the capture stream `stream`: one pass of its loop.  A stream with no
\* capture takes the `continue` that repeats the pass with the same item, so the
\* call does not return (hang); otherwise the result holds the one layer and the
\* queue is empty.
iterLayersWith(c, config, depth, ranges, stream) ==
  IF peek(stream) = Nil
  THEN [err |-> Nil, hang |-> TRUE, layers |-> <<>>, cursors |-> c.cursors, made |-> c.made]
  ELSE [err |-> Nil,
        hang |-> FALSE,
        layers |-> << [ Tree |-> stream,
                        Cursor |-> c.cursor,
                        Config |-> config.LanguageName,
                        HighlightEndStack |-> <<>>,
                        ScopeStack |-> <<rootScope>>,
                        Captures |-> stream,
                        Ranges |-> ranges,
                        Depth |-> depth ] >>,
        cursors |-> c.cursors,
        made |-> c.made]

\* Parser.SetLanguage: the error of a language the parser cannot load, or nil
SetLanguage(languageName) ==
  IF languageName \in IncompatibleLanguages THEN Ptr("error setting language") ELSE Nil

newIterLayers(pool, made, config, depth, ranges, stream) ==
  IF SetLanguage(config.LanguageName) # Nil
  THEN [err |-> SetLanguage(config.LanguageName), hang |-> FALSE, layers |-> <<>>,
        cursors |-> pool, made |-> made]
  ELSE iterLayersWith(popCursor(pool, made), config, depth, ranges, stream)

(***************************************************************************)
(* One pass of the main loop of iterator.next over a consumed capture      *)
(* (from layer.Captures.Next() down to the end of the loop body).  st is   *)
(* the pass's local state: match, capture, the layer's remaining stream    *)
(* and scope stack, referenceHighlight and definitionHighlight.            *)
(***************************************************************************)
\* a removal that takes the top scope when the capture starts after the scope's
\* start
popStartedScope(scopeStack, startByte) ==
  IF startByte > Last(scopeStack).Range.StartByte THEN Front(scopeStack) ELSE scopeStack

\* "Remove from the local scope stack any local scopes that have already ended"
RECURSIVE popEndedScopes(_, _)
popEndedScopes(scopeStack, startByte) ==
  IF startByte > Last(scopeStack).Range.EndByte
  THEN popEndedScopes(Front(scopeStack), startByte)
  ELSE scopeStack

\* the loop over the property settings of a local.scope pattern
RECURSIVE scopeInherits(_, _)
scopeInherits(settings, inherits) ==
  IF settings = <<>> THEN inherits
  ELSE IF Head(settings).Key = captureLocalScopeInherits
       THEN scopeInherits(Tail(settings), Head(settings).Value = "true")
       ELSE scopeInherits(Tail(settings), inherits)

\* the range of the match's local.definition-value capture, the zero Range without
definitionValueRange(config, match) ==
  LET values == SelectSeq(match.Captures, LAMBDA c :
                   config.LocalDefValueCaptureIndex # Nil
                   /\ c.Index = Deref(config.LocalDefValueCaptureIndex))
  IN IF values = <<>> THEN [StartByte |-> 0, EndByte |-> 0]
     ELSE NodeRange(Last(values).Node)

\* the loop over one scope's LocalDefs, last to first; every matching definition
\* assigns highlight, so the first one of the list is the one that stays
scopeHighlight(localDefs, name, startByte) ==
  LET hits == { k \in 1..Len(localDefs) :
                  localDefs[k].Name = name /\ startByte >= localDefs[k].Range.EndByte }
  IN IF hits = {} THEN Nil
     ELSE localDefs[CHOOSE k \in hits : \A j \in hits : k <= j].Highlight

\* the loop over the scope stack, top scope (k = Len) to bottom
RECURSIVE resolveReference(_, _, _, _)
resolveReference(scopeStack, name, startByte, k) ==
  IF k = 0 THEN Nil
  ELSE LET highlight == scopeHighlight(scopeStack[k].LocalDefs, name, startByte)
       IN IF highlight # Nil THEN highlight
          ELSE IF ~scopeStack[k].Inherits THEN Nil
          ELSE resolveReference(scopeStack, name, startByte, k - 1)

\* the body of the locals loop for the current capture
localsCapture(config, src, range, st) ==
  IF config.LocalScopeCaptureIndex # Nil
     /\ st.capture.Index = Deref(config.LocalScopeCaptureIndex)
  THEN [st EXCEPT !.definitionHighlight = Nil,
                  !.ScopeStack = Append(@,
                     [Inherits |-> scopeInherits(PropertySettings(st.match.PatternIndex), TRUE),
                      Range |-> range,
                      LocalDefs |-> <<>>])]
  ELSE IF config.LocalDefCaptureIndex # Nil
          /\ st.capture.Index = Deref(config.LocalDefCaptureIndex)
  THEN \* scope is a copy of the top element of layer.ScopeStack: the definition is
       \* appended to the copy's LocalDefs, and the stack keeps its own list
       LET scope == Last(st.ScopeStack)
           valueRange == definitionValueRange(config, st.match)
       IN IF Len(src) > range.StartByte /\ Len(src) > valueRange.EndByte
          THEN LET localDefs == Append(scope.LocalDefs,
                                  [Name |-> Utf8Text(range, src),
                                   Range |-> range,
                                   Highlight |-> Nil])
               IN [st EXCEPT !.referenceHighlight = Nil,
                             !.definitionHighlight = Last(localDefs).Highlight]
          ELSE [st EXCEPT !.referenceHighlight = Nil, !.definitionHighlight = Nil]
  ELSE IF config.LocalRefCaptureIndex # Nil
          /\ st.capture.Index = Deref(config.LocalRefCaptureIndex)
          /\ st.definitionHighlight = Nil
  THEN IF Len(src) > range.StartByte /\ Len(src) > range.EndByte
       THEN LET highlight == resolveReference(st.ScopeStack, Utf8Text(range, src),
                                              range.StartByte, Len(st.ScopeStack))
            IN IF highlight # Nil THEN [st EXCEPT !.referenceHighlight = highlight] ELSE st
       ELSE st
  ELSE st

\* the locals loop: consumes the locals captures of one node; exit tells how
\* the loop is left ("continue main", or its condition fails: a highlight pattern)
RECURSIVE localsLoop(_, _, _, _)
localsLoop(config, src, range, st) ==
  IF ~(st.match.PatternIndex < config.HighlightsPatternIndex)
  THEN [st EXCEPT !.exit = "highlight"]
  ELSE LET st1 == localsCapture(config, src, range, st)
       IN IF peek(st1.Captures) # Nil
             /\ ItemNode(Deref(peek(st1.Captures))) = st1.capture.Node
          THEN localsLoop(config, src, range,
                 [st1 EXCEPT !.capture = ItemCapture(Head(st1.Captures)),
                             !.match = Head(st1.Captures).match,
                             !.Captures = Tail(st1.Captures)])
          ELSE [st1 EXCEPT !.exit = "continue"]

\* layer.Config.NonLocalVariablePatterns[patternIndex]
nonLocalVariablePattern(config, patternIndex) ==
  config.NonLocalVariablePatterns[patternIndex + 1]

\* the loop over the later highlight captures of the same node
RECURSIVE overshadow(_, _)
overshadow(config, st) ==
  IF peek(st.Captures) = Nil THEN st
  ELSE LET nextCapture == ItemCapture(Head(st.Captures))
           followingMatch == Head(st.Captures).match
       IN IF nextCapture.Node = st.capture.Node
          THEN IF st.definitionHighlight # Nil
                  \/ (st.referenceHighlight # Nil
                      /\ nonLocalVariablePattern(config, followingMatch.PatternIndex))
               THEN overshadow(config, [st EXCEPT !.Captures = Tail(@)])
               ELSE overshadow(config,
                      [st EXCEPT !.Captures = Remove(Tail(@), st.match),
                                 !.capture = nextCapture,
                                 !.match = followingMatch])
          ELSE st

\* "this exact range has already been highlighted ... by a different layer"
alreadyHighlighted(lastHighlightRange, range, depth) ==
  /\ lastHighlightRange # Nil
  /\ range.StartByte = Deref(lastHighlightRange).start
  /\ range.EndByte = Deref(lastHighlightRange).end
  /\ depth < Deref(lastHighlightRange).depth

\* The pass over the capture at the head of the layer's stream, which is not an
\* injection capture: the locals loop, then the highlight part.  kind tells how
\* the pass ends: "locals" (continue main out of the locals loop), "skip" (the
\* range was already highlighted), "start" (a CaptureStart) or "none".
passResult(kind, st, range, highlight) ==
  [kind |-> kind, st |-> st, range |-> range, highlight |-> highlight]

\* "if highlight != nil": the end is pushed and CaptureStart emitted, or nothing
startPart(range, st, highlight) ==
  passResult(IF highlight # Nil THEN "start" ELSE "none", st, range, highlight)

\* currentHighlight, and the reference highlight in its place if there is one
highlightPart(config, range, st) ==
  startPart(range, st,
            IF st.referenceHighlight # Nil THEN st.referenceHighlight
            ELSE config.HighlightIndices[st.capture.Index])

\* after the locals loop: continue main, the already-highlighted check, the
\* loop over the later captures of the node
afterLocals(config, layer, lastHighlightRange, range, st) ==
  IF st.exit = "continue"
  THEN passResult("locals", st, range, Nil)
  ELSE IF alreadyHighlighted(lastHighlightRange, range, layer.Depth)
  THEN passResult("skip", st, range, Nil)
  ELSE highlightPart(config, range, overshadow(config, st))

passOver(config, layer, src, lastHighlightRange, item, range) ==
  afterLocals(config, layer, lastHighlightRange, range,
              localsLoop(config, src, range,
                         [match |-> item.match,
                          capture |-> ItemCapture(item),
                          Captures |-> Tail(layer.Captures),
                          ScopeStack |-> popEndedScopes(layer.ScopeStack, range.StartByte),
                          referenceHighlight |-> Nil,
                          definitionHighlight |-> Nil,
                          exit |-> ""]))

capturePass(layer, src, lastHighlightRange) ==
  passOver(Configuration(layer.Config), layer, src, lastHighlightRange,
           Head(layer.Captures), NodeRange(ItemNode(Head(layer.Captures))))

(***************************************************************************)
(* The inputs: the source and the capture stream that the query yields on  *)
(* the parse of a layer.                                                   *)
(***************************************************************************)
PatternsCapturing(names) == { p \in PatternIndices : PatternAt(p).capture \in names }
InjectionPatternsFor(languages) ==
  { p \in PatternIndices : /\ PatternAt(p).section = "injections"
                           /\ PatternAt(p).settings[1].Value \in languages }

ItemsOver(patterns, nodes) == { SingleItem(p, n) : p \in patterns, n \in nodes }

GenSource == [k \in 1..SrcLen |-> "x"]

\* streams of layers with injections and highlights
LayerPatterns(depth) ==
  PatternsCapturing({<<"variable">>, <<"comment">>})
    \cup (IF depth < MaxDepth THEN InjectionPatternsFor({<<"A">>}) ELSE {})
\* streams of a single layer with local scopes, definitions and references
LocalsPatterns ==
  PatternsCapturing({nameLocalScope, nameLocalDefinition, nameLocalReference,
                     <<"variable">>, <<"variable", "parameter">>})

\* streams with injections of a language the parser rejects and of a language
\* the injection callback does not know
ForeignPatterns ==
  PatternsCapturing({<<"variable">>}) \cup InjectionPatternsFor({<<"B">>, <<"N">>})

RootStreams ==
  StreamsUpTo(MaxCaps, ItemsOver(LayerPatterns(0), NodesWithin(0, SrcLen)))
    \cup StreamsUpTo(MaxCaps, ItemsOver(LocalsPatterns, NodesWithin(0, SrcLen)))
    \cup StreamsUpTo(MaxCaps, ItemsOver(ForeignPatterns, NodesWithin(0, SrcLen)))

\* the capture of the first pattern with this capture name, on the node [s, e)
FirstPattern(name) ==
  CHOOSE p \in PatternsCapturing({name}) : \A q \in PatternsCapturing({name}) : p <= q
Cap(name, s, e) == SingleItem(FirstPattern(name), Node(s, e))
Inject(language, s, e) ==
  SingleItem(CHOOSE p \in InjectionPatternsFor({language}) : TRUE, Node(s, e))

\* the source "x", its identifier captured as @variable
SourceS1 == <<"x">>
StreamS1 == << Cap(<<"variable">>, 0, 1) >>

\* the source "<a>b</a>": the element body is injected, and the injected layer
\* captures it as @variable
SourceS3 == << "<", "a", ">", "b", "<", "/", "a", ">" >>
StreamS3 == << Inject(<<"A">>, 3, 4) >>
InjectedS3 == << Cap(<<"variable">>, 3, 4) >>

\* the source "f f;": a definition of f highlighted @variable.parameter, and a
\* later reference to f that the highlights query captures as @variable
SourceS6 == << "f", " ", "f", ";" >>
StreamS6 ==
  << Cap(nameLocalDefinition, 0, 1), Cap(<<"variable", "parameter">>, 0, 1),
     Cap(nameLocalReference, 2, 3), Cap(<<"variable">>, 2, 3) >>

\* the source "x{xx}x;", standing for  let x = 1; { let x = 2; use x; } use x;
\* the outer definition is highlighted @variable.parameter, the inner one
\* @function, and both references are captured as @variable
SourceP5 == << "x", "{", "x", "x", "}", "x", ";" >>
StreamP5 ==
  << Cap(nameLocalDefinition, 0, 1), Cap(<<"variable", "parameter">>, 0, 1),
     Cap(nameLocalScope, 1, 5),
     Cap(nameLocalDefinition, 2, 3), Cap(<<"function">>, 2, 3),
     Cap(nameLocalReference, 3, 4), Cap(<<"variable">>, 3, 4),
     Cap(nameLocalReference, 5, 6), Cap(<<"variable">>, 5, 6) >>

\* a source of four bytes with an injection inside an injection: the root layer
\* highlights the whole source, injects [1,4) and captures [1,2); the injected
\* layer injects [2,4) and captures [2,3); the innermost layer captures [3,4)
SourceNested == << "a", "b", "c", "d" >>
StreamNested ==
  << Cap(<<"variable">>, 0, 4), Inject(<<"A">>, 1, 4), Cap(<<"variable">>, 1, 2) >>
InjectedNested ==
  << << Inject(<<"A">>, 2, 4), Cap(<<"variable">>, 2, 3) >>,
     << Cap(<<"variable">>, 3, 4) >> >>

\* the capture of the first injection pattern whose first property is `key`
InjectVia(key, s, e) ==
  SingleItem(CHOOSE p \in PatternIndices :
               /\ PatternAt(p).section = "injections"
               /\ PatternAt(p).settings[1].Key = key
               /\ \A q \in 0..(p - 1) : PatternAt(q).settings[1].Key # key,
             Node(s, e))

\* the source "pqrs": the root injects language A, the layer at depth 1 injects
\* A again, and the layer at depth 2 has an injection.parent pattern whose
\* injected layer would capture @variable
SourceParent == << "p", "q", "r", "s" >>
StreamParent == << Inject(<<"A">>, 0, 4) >>
InjectedParent ==
  << << Inject(<<"A">>, 1, 4) >>,
     << InjectVia(captureInjectionParent, 2, 4) >>,
     << Cap(<<"variable">>, 2, 3) >> >>

\* the source "g h": g is a local definition that the highlights query captures
\* as @variable and, by a pattern disabled for local variables, as @function;
\* h is no local variable and has the same two highlight captures
SourceOvershadow == << "g", " ", "h" >>
StreamOvershadow ==
  << Cap(nameLocalDefinition, 0, 1), Cap(<<"variable">>, 0, 1), Cap(<<"function">>, 0, 1),
     Cap(<<"variable">>, 2, 3), Cap(<<"function">>, 2, 3) >>

\* the source "abc": a highlight over the whole source with two highlights
\* inside it, the second starting after the end of the first
SourceEnds == << "a", "b", "c" >>
StreamEnds ==
  << Cap(<<"variable">>, 0, 3), Cap(<<"variable">>, 0, 1), Cap(<<"variable">>, 2, 3) >>

\* injected[d] is the capture stream of the scenario's layer at depth d
Scenarios ==
  { [source |-> SourceS1, stream |-> StreamS1, injected |-> <<>>],
    [source |-> SourceS3, stream |-> StreamS3, injected |-> <<InjectedS3>>],
    [source |-> SourceS6, stream |-> StreamS6, injected |-> <<>>],
    [source |-> SourceP5, stream |-> StreamP5, injected |-> <<>>],
    [source |-> SourceNested, stream |-> StreamNested, injected |-> InjectedNested],
    [source |-> SourceParent, stream |-> StreamParent, injected |-> InjectedParent],
    [source |-> SourceOvershadow, stream |-> StreamOvershadow, injected |-> <<>>],
    [source |-> SourceEnds, stream |-> StreamEnds, injected |-> <<>>] }

\* a root configuration whose language the parser rejects
FailingInputs == { [source |-> GenSource, stream |-> <<>>, language |-> l]
                   : l \in IncompatibleLanguages }

Inputs ==
  { [source |-> GenSource, stream |-> st] : st \in RootStreams }
    \cup Scenarios \cup FailingInputs

\* the streams a parse of a generated source restricted to `ranges` can yield
\* for a layer at `depth`
ParseStreams(depth, ranges) ==
  StreamsUpTo(MaxInjCaps,
              ItemsOver(LayerPatterns(depth),
                        UNION { NodesWithin(ranges[k].StartByte, ranges[k].EndByte)
                                : k \in 1..Len(ranges) }))

\* the capture streams the parse of an injected layer of `source` can yield
InjectedStreams(source, depth, ranges) ==
  IF source = GenSource
  THEN ParseStreams(depth, ranges)
  ELSE { sc.injected[depth] : sc \in { c \in Scenarios : c.source = source } }

(***************************************************************************)
(* The state: the iterator's fields, the layers it points to, the          *)
(* highlighter's cursor pool, and the stream of events the consumer of     *)
(* Highlight has received.                                                 *)
(***************************************************************************)
VARIABLES
  Source,              \* iterator.Source
  ByteOffset,          \* iterator.ByteOffset
  Layers,              \* iterator.Layers: layer pointers
  NextEvents,          \* iterator.NextEvents
  LastHighlightRange,  \* iterator.LastHighlightRange
  LastLayer,           \* iterator.LastLayer
  layerTab,            \* the iterLayer objects, by pointer
  cursors,             \* Highlighter.cursors
  cursorsMade,         \* the cursors NewQueryCursor has created
  status,              \* "running", "done" (the stream ended), "hung" (newIterLayers does not return)
  out,                 \* the events yielded so far, each with ByteOffset and LastLayer at the yield
  starts,              \* a record for every CaptureStart produced: layer, depth, range, highlight
  LanguageName,        \* iterator.LanguageName, the language of the root configuration
  Ctx,                 \* iterator.Ctx: "live", or "cancelled" once the caller tripped it
  errs,                \* the errors yielded so far, each with the number of events yielded before it
  atCancel,            \* nil, or the events yielded and the events queued when Ctx was cancelled
  prevRun,             \* nil, or the root stream and the yields of the highlighter's previous run
  call                 \* nil, or a call of one of the pure functions with its result

vars == << Source, ByteOffset, Layers, NextEvents, LastHighlightRange, LastLayer,
           layerTab, cursors, cursorsMade, status, out, starts,
           LanguageName, Ctx, errs, atCancel, prevRun, call >>

\* what a step of the iterator that yields no error leaves alone
caller == << LanguageName, Ctx, errs, atCancel, prevRun, call >>

\* the language of the root configuration of an input
InputLanguage(input) ==
  IF "language" \in DOMAIN input THEN input.language ELSE RootLanguage

\* how Highlight stands once newIterLayers is through with the root layer: it has
\* an error to yield, it never got the layers, or the iterator is ready
StatusAfter(made) ==
  IF made.err # Nil THEN "failing" ELSE IF made.hang THEN "hung" ELSE "running"

\* Highlighter.Highlight up to the returned iterator: the root layer is built,
\* the iterator is filled in and sorted
InitWith(input, made, sorted) ==
  /\ Source = input.source
  /\ ByteOffset = 0
  /\ NextEvents = <<>>
  /\ LastHighlightRange = Nil
  /\ LastLayer = Nil
  /\ layerTab = made.layers
  /\ Layers = sorted.Layers
  /\ cursors = sorted.cursors
  /\ cursorsMade = made.made
  /\ status = StatusAfter(made)
  /\ out = <<>>
  /\ starts = <<>>
  /\ LanguageName = InputLanguage(input)
  /\ Ctx = "live"
  /\ errs = <<>>
  /\ atCancel = Nil
  /\ prevRun = Nil
  /\ call = Nil

InitLayers(input, made) ==
  InitWith(input, made,
           sortLayers([k \in 1..Len(made.layers) |-> k], made.cursors, made.layers))

InitFor(input) ==
  InitLayers(input,
             newIterLayers(<<>>, 0, Configuration(InputLanguage(input)), 0,
                           <<[StartByte |-> 0, EndByte |-> MaxUint]>>, input.stream))

Init == \E input \in Inputs : InitFor(input)

\* the loop of Highlight's iterator function: a nil event ends the stream,
\* any other event is yielded
Yield(event) ==
  IF event = nilEvent
  THEN /\ status' = "done"
       /\ out' = out
  ELSE /\ status' = status
       /\ out' = Append(out, [event |-> event, offset |-> ByteOffset', layer |-> LastLayer'])

\* the error is yielded and the loop of Highlight goes on pulling
YieldErrorAndGoOn(err) ==
  /\ status' = status
  /\ errs' = Append(errs, [err |-> err, at |-> Len(out)])
  /\ out' = out

\* next returned (nil, err): Highlight yields the error and returns
YieldError(err) ==
  /\ status' = "failed"
  /\ errs' = Append(errs, [err |-> err, at |-> Len(out)])
  /\ out' = out

\* emitEvents(offset, events...) with the layers as they are in tab
Emitted(e, sorted, tab) ==
  /\ ByteOffset' = e.ByteOffset
  /\ NextEvents' = e.NextEvents
  /\ Layers' = sorted.Layers
  /\ cursors' = sorted.cursors
  /\ layerTab' = tab
  /\ Yield(e.result)
EmitEvents(offset, events, tab) ==
  Emitted(emitEvents(ByteOffset, NextEvents, offset, events),
          sortLayers(Layers, cursors, tab), tab)

Running == status = "running"
\* a cancellation check that never finds the context done
NeverDone(ctx) == FALSE

\* "case <-h.Ctx.Done()": the context is done
Done(ctx) == ctx = "cancelled"
\* past the cancellation check of an iteration of next
Live == Running /\ ~Done(Ctx)
HeadLayer == layerTab[Layers[1]]
\* the guard of the passes that look at the head layer
AtHead ==
  /\ Live
  /\ Len(NextEvents) = 0
  /\ Len(Layers) > 0
  /\ Ptr(Layers[1]) = LastLayer

\* "if len(h.NextEvents) > 0": the next queued event is returned
DrainNextEvents ==
  /\ UNCHANGED caller
  /\ Running
  /\ Len(NextEvents) > 0
  /\ NextEvents' = Tail(NextEvents)
  /\ UNCHANGED << Source, ByteOffset, Layers, LastHighlightRange, LastLayer,
                  layerTab, cursors, cursorsMade, starts >>
  /\ Yield(Head(NextEvents))

\* no layer is left and source remains: the last Source event
FinalSource ==
  /\ UNCHANGED caller
  /\ Live
  /\ Len(NextEvents) = 0
  /\ Len(Layers) = 0
  /\ ByteOffset < Len(Source)
  /\ ByteOffset' = Len(Source)
  /\ UNCHANGED << Source, Layers, NextEvents, LastHighlightRange, LastLayer,
                  layerTab, cursors, cursorsMade, starts >>
  /\ Yield(eventSource(ByteOffset, Len(Source)))

\* no layer is left and the source is covered: next returns (nil, nil)
Terminate ==
  /\ UNCHANGED caller
  /\ Live
  /\ Len(NextEvents) = 0
  /\ Len(Layers) = 0
  /\ ~(ByteOffset < Len(Source))
  /\ UNCHANGED << Source, ByteOffset, Layers, NextEvents, LastHighlightRange, LastLayer,
                  layerTab, cursors, cursorsMade, starts >>
  /\ Yield(nilEvent)

\* a layer switch that emits neither LayerEnd nor LayerStart
LayerSwitchSilent ==
  /\ UNCHANGED caller
  /\ Live
  /\ Len(NextEvents) = 0
  /\ Len(Layers) > 0
  /\ Ptr(Layers[1]) # LastLayer
  /\ LastLayer' = Ptr(Layers[1])
  /\ UNCHANGED << Source, ByteOffset, Layers, NextEvents, LastHighlightRange,
                  layerTab, cursors, cursorsMade, status, out, starts >>

\* a layer switch that opens the new layer before it closes the previous one
LayerSwitchStartFirst ==
  /\ UNCHANGED caller
  /\ Live
  /\ Len(NextEvents) = 0
  /\ Len(Layers) > 0
  /\ Ptr(Layers[1]) # LastLayer
  /\ LastLayer' = Ptr(Layers[1])
  /\ UNCHANGED << Source, LastHighlightRange, cursorsMade, starts >>
  /\ EmitEvents(ByteOffset,
                <<eventLayerStart(Configuration(HeadLayer.Config).LanguageName)>>
                  \o (IF LastLayer # Nil THEN <<eventLayerEnd>> ELSE <<>>),
                layerTab)

\* the head layer is not the last layer: LayerEnd (if there was one), LayerStart
LayerSwitch ==
  /\ UNCHANGED caller
  /\ Live
  /\ Len(NextEvents) = 0
  /\ Len(Layers) > 0
  /\ Ptr(Layers[1]) # LastLayer
  /\ LastLayer' = Ptr(Layers[1])
  /\ UNCHANGED << Source, LastHighlightRange, cursorsMade, starts >>
  /\ EmitEvents(ByteOffset,
                (IF LastLayer # Nil THEN <<eventLayerEnd>> ELSE <<>>)
                  \o <<eventLayerStart(Configuration(HeadLayer.Config).LanguageName)>>,
                layerTab)

\* a capture is pending and the top of HighlightEndStack ends at or before its start
\* an end taken from the bottom of HighlightEndStack instead of its top
EndFromBottom ==
  /\ UNCHANGED caller
  /\ AtHead
  /\ peek(HeadLayer.Captures) # Nil
  /\ Len(HeadLayer.HighlightEndStack) > 0
  /\ Last(HeadLayer.HighlightEndStack) <= ItemNode(Head(HeadLayer.Captures)).StartByte
  /\ UNCHANGED << Source, LastHighlightRange, LastLayer, cursorsMade, starts >>
  /\ EmitEvents(Head(HeadLayer.HighlightEndStack), <<eventCaptureEnd>>,
                [layerTab EXCEPT ![Layers[1]].HighlightEndStack = Tail(@)])

EndBeforeCapture ==
  /\ UNCHANGED caller
  /\ AtHead
  /\ peek(HeadLayer.Captures) # Nil
  /\ Len(HeadLayer.HighlightEndStack) > 0
  /\ Last(HeadLayer.HighlightEndStack) <= ItemNode(Head(HeadLayer.Captures)).StartByte
  /\ UNCHANGED << Source, LastHighlightRange, LastLayer, cursorsMade, starts >>
  /\ EmitEvents(Last(HeadLayer.HighlightEndStack), <<eventCaptureEnd>>,
                [layerTab EXCEPT ![Layers[1]].HighlightEndStack = Front(@)])

\* no capture is left: the remaining ends, one at a time, and with none left
\* emitEvents(len(Source), nil), whose variadic slice holds the one nil event
NoMoreCaptures ==
  /\ UNCHANGED caller
  /\ AtHead
  /\ peek(HeadLayer.Captures) = Nil
  /\ UNCHANGED << Source, LastHighlightRange, LastLayer, cursorsMade, starts >>
  /\ IF Len(HeadLayer.HighlightEndStack) > 0
     THEN EmitEvents(Last(HeadLayer.HighlightEndStack), <<eventCaptureEnd>>,
                     [layerTab EXCEPT ![Layers[1]].HighlightEndStack = Front(@)])
     ELSE EmitEvents(Len(Source), <<nilEvent>>, layerTab)

\* the guard of the passes that consume the head layer's next capture
Consuming ==
  /\ AtHead
  /\ peek(HeadLayer.Captures) # Nil
  /\ ~(/\ Len(HeadLayer.HighlightEndStack) > 0
       /\ Last(HeadLayer.HighlightEndStack) <= ItemNode(Head(HeadLayer.Captures)).StartByte)

IsInjection(layer) ==
  Head(layer.Captures).match.PatternIndex < Configuration(layer.Config).LocalsPatternIndex

\* the layers after `newLayers` (new pointers, in order) were given to insertLayer
RECURSIVE insertLayers(_, _, _)
insertLayers(layers, newLayers, tab) ==
  IF newLayers = <<>> THEN layers
  ELSE insertLayers(insertLayer(layers, Head(newLayers), tab), Tail(newLayers), tab)

\* a pass ends without an event: sortLayers, and the loop goes on
Resorted(tab, sorted) ==
  /\ layerTab' = tab
  /\ Layers' = sorted.Layers
  /\ cursors' = sorted.cursors
  /\ UNCHANGED << Source, ByteOffset, NextEvents, LastHighlightRange, LastLayer,
                  status, out, starts >>

Resort(tab) == Resorted(tab, sortLayers(Layers, cursors, tab)) /\ UNCHANGED cursorsMade

\* the new layers are inserted, one insertLayer each
Injected(made, tab, inserted) ==
  /\ Resorted(tab, sortLayers(inserted, made.cursors, tab))
  /\ cursorsMade' = made.made
  /\ errs' = errs

InjectedInto(made, tab, newLayers) ==
  Injected(made, tab, insertLayers(Layers, newLayers, tab))

\* newIterLayers has returned an error or the layers `made`, or does not return
InjectLayers(consumed, made) ==
  IF made.err # Nil
  THEN /\ YieldError(Deref(made.err))
       /\ layerTab' = consumed
       /\ UNCHANGED << Source, ByteOffset, Layers, NextEvents, LastHighlightRange,
                       LastLayer, cursors, cursorsMade, starts >>
  ELSE IF made.hang
  THEN /\ status' = "hung"
       /\ layerTab' = consumed
       /\ cursors' = made.cursors
       /\ cursorsMade' = made.made
       /\ UNCHANGED << Source, ByteOffset, Layers, NextEvents, LastHighlightRange,
                       LastLayer, out, starts, errs >>
  ELSE InjectedInto(made, consumed \o made.layers,
                    [k \in 1..Len(made.layers) |-> Len(consumed) + k])

\* an injection that builds layers also for a language the callback returns no
\* configuration for
InjectMatchAnyLanguage(layer, consumed, inj, newConfig, ranges) ==
  IF inj.languageName # <<>> /\ inj.contentNode # Nil /\ Len(ranges) > 0
  THEN \E stream \in InjectedStreams(Source, layer.Depth + 1, ranges) :
         InjectLayers(consumed,
                      newIterLayers(cursors, cursorsMade, Configuration(inj.languageName),
                                    layer.Depth + 1, ranges, stream))
  ELSE Resort(consumed) /\ errs' = errs

\* the injection of the match is known
InjectMatch(layer, consumed, inj, newConfig, ranges) ==
  IF inj.languageName # <<>> /\ inj.contentNode # Nil
     /\ newConfig # Nil /\ Len(ranges) > 0
  THEN \E stream \in InjectedStreams(Source, layer.Depth + 1, ranges) :
         InjectLayers(consumed,
                      newIterLayers(cursors, cursorsMade, Deref(newConfig),
                                    layer.Depth + 1, ranges, stream))
  ELSE Resort(consumed) /\ errs' = errs

InjectFor(layer, consumed, inj) ==
  InjectMatch(layer, consumed, inj, InjectionCallback(inj.languageName),
              IF inj.contentNode # Nil
              THEN intersectRanges(layer.Ranges, <<Deref(inj.contentNode)>>,
                                   inj.includeChildren)
              ELSE <<>>)

InjectFrom(layer, match) ==
  InjectFor(layer, [layerTab EXCEPT ![Layers[1]].Captures = Remove(Tail(@), match)],
            injectionForMatch(Configuration(layer.Config), LanguageName, match, Source))

\* the capture is an injection: the match is removed, and when the callback knows
\* the language the layers of the injected range are built and inserted
Injection ==
  /\ UNCHANGED << LanguageName, Ctx, atCancel, prevRun, call >>
  /\ Consuming
  /\ IsInjection(HeadLayer)
  /\ InjectFrom(HeadLayer, Head(HeadLayer.Captures).match)

\* the pass over a capture that is not an injection, by the way it ends
Pass == capturePass(HeadLayer, Source, LastHighlightRange)
AfterPass(pass) ==
  [layerTab EXCEPT ![Layers[1]].Captures = pass.st.Captures,
                   ![Layers[1]].ScopeStack = pass.st.ScopeStack]


\* the pass emits no event: the locals captures of a node were consumed and no
\* highlight capture of it follows ("locals"), the range was highlighted last by
\* a deeper layer ("skip"), or the capture has no highlight ("none")
PassEnds(pass) ==
  /\ pass.kind \in {"locals", "skip", "none"}
  /\ Resort(AfterPass(pass))

PassWithoutEvent ==
  /\ UNCHANGED caller
  /\ Consuming
  /\ ~IsInjection(HeadLayer)
  /\ PassEnds(Pass)

PassStarts(pass, layer) ==
  /\ pass.kind = "start"
  /\ LastHighlightRange' = Ptr([start |-> pass.range.StartByte,
                                end |-> pass.range.EndByte,
                                depth |-> layer.Depth])
  /\ starts' = Append(starts, [layer |-> Layers[1], depth |-> layer.Depth,
                               range |-> pass.range,
                               highlight |-> Deref(pass.highlight)])
  /\ UNCHANGED << Source, LastLayer, cursorsMade >>
  /\ EmitEvents(pass.range.StartByte, <<eventCaptureStart(Deref(pass.highlight))>>,
                [AfterPass(pass) EXCEPT ![Layers[1]].HighlightEndStack =
                                           Append(@, pass.range.EndByte)])

\* the capture has a highlight: its end is pushed and CaptureStart is emitted
HighlightStart ==
  /\ UNCHANGED caller
  /\ Consuming
  /\ ~IsInjection(HeadLayer)
  /\ PassStarts(Pass, HeadLayer)

\* the caller trips the cancellation signal of the context
Cancel ==
  /\ Running
  /\ ~Done(Ctx)
  /\ Ctx' = "cancelled"
  /\ atCancel' = Ptr([yielded |-> Len(out), queued |-> NextEvents])
  /\ UNCHANGED << Source, ByteOffset, Layers, NextEvents, LastHighlightRange, LastLayer,
                  layerTab, cursors, cursorsMade, status, out, starts,
                  LanguageName, errs, prevRun, call >>

\* "check for cancellation": no event is queued and the context is done
Cancelled ==
  /\ Running
  /\ Len(NextEvents) = 0
  /\ Done(Ctx)
  /\ YieldError("context canceled")
  /\ UNCHANGED << Source, ByteOffset, Layers, NextEvents, LastHighlightRange, LastLayer,
                  layerTab, cursors, cursorsMade, starts,
                  LanguageName, Ctx, atCancel, prevRun, call >>

\* newIterLayers failed on the root layer: the iterator Highlight returns yields
\* the error and nothing else
RootError ==
  /\ status = "failing"
  /\ YieldError(Deref(SetLanguage(LanguageName)))
  /\ UNCHANGED << Source, ByteOffset, Layers, NextEvents, LastHighlightRange, LastLayer,
                  layerTab, cursors, cursorsMade, starts,
                  LanguageName, Ctx, atCancel, prevRun, call >>

\* the captures of a stream that are not injection captures
IsInjectionItem(item) == item.match.PatternIndex < QueryConfiguration.LocalsPatternIndex
WithoutInjections(stream) == SelectSeq(stream, LAMBDA item : ~IsInjectionItem(item))
HasInjections(stream) == \E k \in 1..Len(stream) : IsInjectionItem(stream[k])

\* Highlight on a highlighter that was used before: a new iterator, the cursor
\* pool of the highlighter as the run before left it
StartedWith(made, sorted) ==
  /\ ByteOffset' = 0
  /\ NextEvents' = <<>>
  /\ LastHighlightRange' = Nil
  /\ LastLayer' = Nil
  /\ layerTab' = made.layers
  /\ Layers' = sorted.Layers
  /\ cursors' = sorted.cursors
  /\ cursorsMade' = made.made
  /\ status' = StatusAfter(made)
  /\ out' = <<>>
  /\ starts' = <<>>

StartedLayers(made) ==
  StartedWith(made,
              sortLayers([k \in 1..Len(made.layers) |-> k], made.cursors, made.layers))

\* The stream has ended, and the caller highlights the source once more with
\* the same highlighter and a query without the injection patterns: the parse
\* yields the captures of the run before but for the injection captures.
HighlightAgain ==
  /\ status = "done"
  /\ ~Done(Ctx)
  /\ prevRun = Nil
  /\ Len(layerTab) > 0
  /\ HasInjections(layerTab[1].Tree)
  /\ prevRun' = Ptr([stream |-> layerTab[1].Tree, out |-> out])
  /\ StartedLayers(newIterLayers(cursors, cursorsMade, Configuration(LanguageName), 0,
                                 <<[StartByte |-> 0, EndByte |-> MaxUint]>>,
                                 WithoutInjections(layerTab[1].Tree)))
  /\ UNCHANGED << Source, LanguageName, Ctx, errs, atCancel, call >>

Next ==
  \/ Cancel
  \/ Cancelled
  \/ RootError
  \/ HighlightAgain
  \/ DrainNextEvents
  \/ FinalSource
  \/ Terminate
  \/ LayerSwitch
  \/ EndBeforeCapture
  \/ NoMoreCaptures
  \/ Injection
  \/ PassWithoutEvent
  \/ HighlightStart

Spec == Init /\ [][Next]_vars

\* the consumer ranges over the stream until it ends: a step that can be taken
\* is taken
FairSpec == Spec /\ WF_vars(Next)

(***************************************************************************)
(* The functions of the package that compute a value from their arguments  *)
(* alone, each applied to arguments drawn from bounded sets.               *)
(***************************************************************************)
\* largest offset of a sort key
MaxKeyOffset == 2
\* deepest layer of a sort key
MaxKeyDepth == 2
\* longest slice given to rotateLeft
MaxSlice == 4
\* most spare slots in the backing array of h.Layers
MaxSpare == 1
MaxQueue == 3
MaxMatches == 2
MaxPatterns == 3
MaxScopes == 2
MaxOps == 4
MaxByte == 4
MaxNest == 2
MaxItems == 2

SortKeys ==
  [offset : 0..MaxKeyOffset, start : BOOLEAN, depth : { 0 - d : d \in 0..MaxKeyDepth }]

\* the capture names of a highlights query, and the names a theme may recognise
ThemeCaptureNames ==
  << <<"function">>, <<"function", "builtin">>, <<"function", "method">>,
     <<"function", "method", "builtin">>, <<"function", "builtin", "constructor">> >>
ThemeNames == { <<"function">>, <<"function", "method">>, <<"function", "builtin">> }
ThemeLists ==
  {<<>>} \cup { <<a>> : a \in ThemeNames }
         \cup { p \in ThemeNames \X ThemeNames : p[1] # p[2] }

\* the slices of distinct elements, of at most n elements
Slices(n) == { [k \in 1..m |-> k] : m \in 0..n }

Idle ==
  /\ Source = <<>>
  /\ ByteOffset = 0
  /\ Layers = <<>>
  /\ NextEvents = <<>>
  /\ LastHighlightRange = Nil
  /\ LastLayer = Nil
  /\ layerTab = <<>>
  /\ cursors = <<>>
  /\ cursorsMade = 0
  /\ status = "idle"
  /\ out = <<>>
  /\ starts = <<>>
  /\ LanguageName = RootLanguage
  /\ Ctx = "live"
  /\ errs = <<>>
  /\ atCancel = Nil
  /\ prevRun = Nil

FnInit == Idle /\ call = Nil

Called(fn, args, result) ==
  /\ call' = Ptr([fn |-> fn, args |-> args, result |-> result])
  /\ UNCHANGED << Source, ByteOffset, Layers, NextEvents, LastHighlightRange, LastLayer,
                  layerTab, cursors, cursorsMade, status, out, starts,
                  LanguageName, Ctx, errs, atCancel, prevRun >>

\* compare on the pairs of three keys
CallCompare ==
  /\ call = Nil
  /\ \E a \in SortKeys, b \in SortKeys, c \in SortKeys :
       Called("compare", <<a, b, c>>,
              [ab |-> compare(a, b), ba |-> compare(b, a),
               bc |-> compare(b, c), ac |-> compare(a, c)])

\* Configure with a list of recognised names
CallConfigure ==
  /\ call = Nil
  /\ \E recognizedNames \in ThemeLists :
       Called("Configure", <<recognizedNames>>,
              ConfigureOver(ThemeCaptureNames, recognizedNames))

\* rotateLeft on a slice
CallRotateLeft ==
  /\ call = Nil
  /\ \E s \in Slices(MaxSlice) : \E i \in 0..Len(s) :
       Called("rotateLeft", <<s, i>>, rotateLeft(s, i))

\* the statement of sortLayers that moves the head behind the i layers it passed
CallRotateSplice ==
  /\ call = Nil
  /\ \E layers \in Slices(MaxSlice) : \E i \in 1..(Len(layers) - 1) : \E spare \in 0..MaxSpare :
       Called("rotateSplice", <<layers, i, spare>>, rotateSplice(layers, i, spare))

\* layers as sortKey sees them: the next capture, the pending ends, the depth
KeyLayers(captures, ends, depths) ==
  [ Captures : {<<>>} \cup { <<SingleItem(p, Node(s, s + 1))>> :
                               p \in PatternsCapturing({<<"variable">>}), s \in captures },
    HighlightEndStack : {<<>>} \cup { <<e>> : e \in ends },
    Depth : depths ]

\* sortKey on a layer
CallSortKey ==
  /\ call = Nil
  /\ \E layer \in KeyLayers(0..MaxKeyOffset, 1..(MaxKeyOffset + 1), 0..MaxKeyDepth) :
       Called("sortKey", <<layer>>, sortKey(layer))

\* insertLayer of the last layer of a table into the list of the layers before it
CallInsertLayer ==
  /\ call = Nil
  /\ \E n \in 2..MaxSlice :
       \E tab \in [1..n -> KeyLayers(0..MaxKeyOffset, {}, 0..MaxDepth)] :
         Called("insertLayer", <<[k \in 1..(n - 1) |-> k], n, tab>>,
                insertLayer([k \in 1..(n - 1) |-> k], n, tab))

\* the items a queue of newIterLayers can hold
QueueItems ==
  [config : {<<"A">>}, depth : 1..MaxKeyDepth,
   ranges : { <<NodeRange(n)>> : n \in NodesWithin(0, MaxKeyOffset) }]

\* the dequeue statement of newIterLayers on a non-empty queue
CallDequeue ==
  /\ call = Nil
  /\ \E n \in 1..MaxQueue :
       \E queue \in [1..n -> QueueItems] :
         Called("dequeue", <<queue>>, dequeue(queue))

\* the matches of a combined injections query: patterns that set a language the
\* callback knows, one it does not know
CombinedMatches ==
  { SingleMatch(p, n) : p \in InjectionPatternsFor({<<"A">>, <<"N">>}),
                        n \in NodesWithin(0, MaxKeyOffset) }

\* the combined injections block of newIterLayers for a layer of the root
\* language over the whole source
CallCombinedInjections ==
  /\ call = Nil
  /\ \E n \in 1..MaxMatches :
       \E matches \in [1..n -> CombinedMatches] :
         \E depth \in 0..MaxDepth :
           Called("combinedInjections",
                  <<matches, depth>>,
                  combinedInjections(Configuration(RootLanguage), RootLanguage, matches,
                                     GenSource, depth, <<rootScope.Range>>, <<>>))

\* the matches of the injection patterns on the source "abcd": the content node,
\* and after it an injection.language capture on "b", on an empty node, or none
LanguageNodes == {Node(1, 2), Node(1, 1)}
InjectionMatches ==
  { SingleMatch(p, Node(2, 4)) : p \in PatternsCapturing({nameInjectionContent}) }
    \cup { [SingleMatch(p, Node(2, 4)) EXCEPT
              !.Captures = @ \o <<[Index |-> Deref(CaptureIndexOf(nameInjectionLanguage)),
                                   Node |-> n]>>]
           : p \in PatternsCapturing({nameInjectionContent}), n \in LanguageNodes }

\* configurations of language B: the query has both reserved captures, or lacks
\* injection.content, or lacks injection.language
InjectionConfigs ==
  { Configuration(<<"B">>),
    [Configuration(<<"B">>) EXCEPT !.InjectionContentCaptureIndex = Nil],
    [Configuration(<<"B">>) EXCEPT !.InjectionLanguageCaptureIndex = Nil] }

\* injectionForMatch for a layer whose parent is the root language
CallInjectionForMatch ==
  /\ call = Nil
  /\ \E config \in InjectionConfigs :
       \E match \in InjectionMatches :
         Called("injectionForMatch", <<config, match>>,
                injectionForMatch(config, RootLanguage, match, SourceNested))

\* NewConfiguration's nonLocalVariablePatterns for a query of highlight patterns
CallNonLocalVariablePatterns ==
  /\ call = Nil
  /\ \E n \in 1..MaxPatterns :
       \E patterns \in [1..n -> { PatternAt(p) : p \in PatternsCapturing({<<"variable">>,
                                                                          <<"function">>}) }] :
         Called("nonLocalVariablePatterns", <<patterns>>, nonLocalVariablePatterns(patterns))

\* the non-empty ranges within the bytes lo..hi
RangesWithin(lo, hi) ==
  { r \in [StartByte : lo..hi, EndByte : lo..hi] : r.StartByte < r.EndByte }
\* sorted lists of one or two disjoint ranges
SortedRanges(ranges) ==
  { <<r>> : r \in ranges }
    \cup { <<p[1], p[2]>> : p \in { q \in ranges \X ranges : q[1].EndByte <= q[2].StartByte } }
\* content nodes with no child or one direct child, one or two in document order
ContentNodes ==
  { [StartByte |-> r.StartByte, EndByte |-> r.EndByte, Children |-> c] :
      r \in RangesWithin(0, MaxByte),
      c \in {<<>>} \cup { <<x>> : x \in RangesWithin(0, MaxByte) } }
NodeLists ==
  LET nodes == { n \in ContentNodes :
                   \A k \in 1..Len(n.Children) :
                      n.StartByte <= n.Children[k].StartByte
                        /\ n.Children[k].EndByte <= n.EndByte }
  IN { <<n>> : n \in nodes }
       \cup { <<p[1], p[2]>> : p \in { q \in nodes \X nodes : q[1].EndByte <= q[2].StartByte } }
\* the ranges of a layer: the root layer's, or ranges within the source
ParentRanges == {<<rootScope.Range>>} \cup SortedRanges(RangesWithin(0, MaxByte))

(***************************************************************************)
(* The HTML renderer.  Its output is the sequence of the tags and          *)
(* characters it writes.                                                   *)
(***************************************************************************)
DefaultHighlight == MaxUint

\* html.EscapeString of one character
EscapeString(c) ==
  CASE c = "<" -> "&lt;"
    [] c = ">" -> "&gt;"
    [] c = "&" -> "&amp;"
    [] c = "'" -> "&#39;"
    [] c = "\"" -> "&#34;"
    [] OTHER -> c

\* the callback renders the capture and the language it is given
startHighlight(h, languageName) == [tag |-> "<span", attributes |-> <<h, languageName>>]
endHighlight == [tag |-> "</span>"]

\* the language the pulled iterator gave last: the zero value once it is exhausted
nextLanguage(languages, l) == IF l <= Len(languages) THEN languages[l] ELSE <<>>

\* "for i, h := range hs" of addText, from the i-th highlight on (i counted from 1)
RECURSIVE reopen(_, _, _, _)
reopen(hs, i, languages, l) ==
  IF i > Len(hs) THEN <<>>
  ELSE IF i = 1 THEN reopen(hs, i + 1, languages, l)
  ELSE <<startHighlight(hs[i], nextLanguage(languages, l))>>
         \o reopen(hs, i + 1, languages, IF hs[i] = DefaultHighlight THEN l + 1 ELSE l)

RECURSIVE addText(_, _, _)
addText(source, hs, languages) ==
  IF source = <<>> THEN <<>>
  ELSE IF Head(source) = "\r" THEN addText(Tail(source), hs, languages)
  ELSE IF Head(source) = "\n"
  THEN [k \in 1..(Len(hs) - 1) |-> endHighlight]
         \o <<[tag |-> "text", char |-> "\n"]>>
         \o reopen(hs, 1, languages, 1)
         \o addText(Tail(source), hs, languages)
  ELSE <<[tag |-> "text", char |-> EscapeString(Head(source))]>>
         \o addText(Tail(source), hs, languages)

\* the body of Render's loop for one event; r holds highlights, languages, output
renderEvent(r, e, source) ==
  CASE e.type = "LayerStart" ->
         [r EXCEPT !.highlights = Append(@, DefaultHighlight),
                   !.languages = Append(@, e.LanguageName)]
    [] e.type = "LayerEnd" ->
         [r EXCEPT !.highlights = Front(@), !.languages = Front(@)]
    [] e.type = "CaptureStart" ->
         [r EXCEPT !.highlights = Append(@, e.Highlight),
                   !.output = Append(@, startHighlight(e.Highlight, Last(r.languages)))]
    [] e.type = "CaptureEnd" ->
         [r EXCEPT !.highlights = Front(@), !.output = Append(@, endHighlight)]
    [] e.type = "Source" ->
         [r EXCEPT !.output = @ \o addText(SubSeq(source, e.StartByte + 1, e.EndByte),
                                           r.highlights, r.languages)]

RECURSIVE renderLoop(_, _, _)
renderLoop(r, highlightEvents, source) ==
  IF highlightEvents = <<>> THEN r
  ELSE renderLoop(renderEvent(r, Head(highlightEvents), source), Tail(highlightEvents), source)

Render(highlightEvents, source) ==
  renderLoop([highlights |-> <<>>, languages |-> <<>>, output |-> <<>>],
             highlightEvents, source).output

\* the texts of the Source events: a character, a newline, a CR LF
Texts == { <<"x">>, <<"<">>, <<"\n">>, <<"\r", "\n">> }
\* well-nested pieces of a stream: a Source event, a capture, an injected layer
\* around up to MaxItems pieces nested one level less; a Source event holds
\* its text until the stream is laid out
RECURSIVE Bodies(_)
Items(d) ==
  { <<[type |-> "Source", text |-> x]>> : x \in Texts }
    \cup (IF d = 0 THEN {}
          ELSE { <<eventCaptureStart(0)>> \o b \o <<eventCaptureEnd>> : b \in Bodies(d - 1) }
                 \cup { <<eventLayerStart(<<"A">>)>> \o b \o <<eventLayerEnd>> :
                           b \in Bodies(d - 1) })
RECURSIVE Pieces(_, _)
Pieces(items, n) ==
  IF n = 0 THEN {<<>>}
  ELSE Pieces(items, n - 1) \cup { b \o i : b \in Pieces(items, n - 1), i \in items }
Bodies(d) == Pieces(Items(d), MaxItems)
\* the source of a stream and its events with the Source events laid out in it
RECURSIVE SourceOf(_)
SourceOf(stream) ==
  IF stream = <<>> THEN <<>>
  ELSE (IF Head(stream).type = "Source" THEN Head(stream).text ELSE <<>>)
         \o SourceOf(Tail(stream))
RECURSIVE LaidOut(_, _)
LaidOut(stream, offset) ==
  IF stream = <<>> THEN <<>>
  ELSE IF Head(stream).type = "Source"
  THEN <<eventSource(offset, offset + Len(Head(stream).text))>>
         \o LaidOut(Tail(stream), offset + Len(Head(stream).text))
  ELSE <<Head(stream)>> \o LaidOut(Tail(stream), offset)
\* the streams of a root layer around one piece or a body nested one level less
EventStreams ==
  { <<eventLayerStart(<<"r">>)>> \o b \o <<eventLayerEnd>> :
      b \in Items(MaxNest) \cup Bodies(MaxNest - 1) }

\* Render on a well-nested stream and its source
CallRender ==
  /\ call = Nil
  /\ \E stream \in EventStreams :
       Called("Render", <<LaidOut(stream, 0), SourceOf(stream)>>,
              Render(LaidOut(stream, 0), SourceOf(stream)))

\* sortLayers on the list of the layers of a table, in every order of their keys
CallSortLayers ==
  /\ call = Nil
  /\ \E n \in 1..MaxSlice :
       \E tab \in [1..n -> KeyLayers(0..MaxKeyOffset, {}, 0..MaxDepth)] :
         \E spare \in 0..MaxSpare :
           Called("sortLayers", <<[k \in 1..n |-> k], tab, spare>>,
                  sortLayersSpare([k \in 1..n |-> k], <<>>,
                                  [k \in 1..n |-> [Cursor |-> k] @@ tab[k]], spare).Layers)

\* intersectRanges as the iterator of part_006 calls it
CallIntersectRanges ==
  /\ call = Nil
  /\ \E parentRanges \in ParentRanges :
       \E nodes \in NodeLists :
         \E includesChildren \in BOOLEAN :
           Called("intersectRanges", <<parentRanges, nodes, includesChildren>>,
                  [stub |-> intersectRanges(parentRanges, nodes, includesChildren),
                   full |-> IntersectRanges(parentRanges, nodes, includesChildren)])

\* queryCapturesIter: the underlying captures still to come, and the peeked item
newQueryCapturesIter(stream) == [captures |-> stream, peeked |-> Nil]

\* queryCapturesIter.next: the next item of the underlying iterator, or none
queryCapturesNext(q) ==
  IF q.captures = <<>>
  THEN [q |-> q, item |-> Nil, ok |-> FALSE]
  ELSE [q |-> [q EXCEPT !.captures = Tail(@)], item |-> Ptr(Head(q.captures)), ok |-> TRUE]

\* a Next that returns the peeked item and keeps it
NextKeepingPeeked(q) ==
  IF q.peeked # Nil
  THEN [q |-> q, item |-> Deref(q.peeked).item, ok |-> Deref(q.peeked).ok]
  ELSE queryCapturesNext(q)

\* queryCapturesIter.Next
QueryCapturesNext(q) ==
  IF q.peeked # Nil
  THEN [q |-> [q EXCEPT !.peeked = Nil],
        item |-> Deref(q.peeked).item, ok |-> Deref(q.peeked).ok]
  ELSE queryCapturesNext(q)

\* Peek's "if q.peeked == nil": the iterator with the next item stored in peeked
Peeking(q, n) ==
  IF q.peeked = Nil THEN [n.q EXCEPT !.peeked = Ptr([item |-> n.item, ok |-> n.ok])] ELSE q

\* queryCapturesIter.Peek
QueryCapturesPeek(q) ==
  [q |-> Peeking(q, queryCapturesNext(q)),
   item |-> Deref(Peeking(q, queryCapturesNext(q)).peeked).item,
   ok |-> Deref(Peeking(q, queryCapturesNext(q)).peeked).ok]

\* the calls of `ops`, in order, on the iterator: what each call returned
RECURSIVE iterate(_, _, _)
Returned(r, ops, returns) ==
  iterate(r.q, Tail(ops), Append(returns, [item |-> r.item, ok |-> r.ok]))
iterate(q, ops, returns) ==
  IF ops = <<>>
  THEN returns
  ELSE Returned(IF Head(ops) = "Next" THEN QueryCapturesNext(q) ELSE QueryCapturesPeek(q),
                ops, returns)

\* up to MaxOps calls of Next and Peek on the iterator over a capture stream
CallIterate ==
  /\ call = Nil
  /\ \E n \in 1..MaxOps :
       \E ops \in [1..n -> {"Next", "Peek"}] :
         \E len \in 0..Len(StreamEnds) :
           Called("iterate", <<SubSeq(StreamEnds, 1, len), ops>>,
                  iterate(newQueryCapturesIter(SubSeq(StreamEnds, 1, len)), ops, <<>>))

\* the definitions a scope can hold: none, or one of x or y that ends at 1 or
\* at 3, without a highlight or with the highlight 1
ScopeDefs ==
  {<<>>} \cup { <<[Name |-> <<n>>, Range |-> [StartByte |-> e - 1, EndByte |-> e], Highlight |-> h]>>
               : n \in {"x", "y"}, e \in {1, 3}, h \in {Nil, Ptr(1)} }
\* scope stacks: the root scope and up to MaxScopes scopes above it
ScopeStacks ==
  UNION { { <<[rootScope EXCEPT !.LocalDefs = root]>> \o above :
              root \in ScopeDefs,
              above \in [1..n -> [Inherits : BOOLEAN,
                                  Range : {[StartByte |-> 0, EndByte |-> 4]},
                                  LocalDefs : ScopeDefs]] }
          : n \in 0..MaxScopes }

\* the search of a local.reference named x that starts at byte 2
CallResolveReference ==
  /\ call = Nil
  /\ \E scopeStack \in ScopeStacks :
       Called("resolveReference", <<scopeStack, <<"x">>, 2>>,
              resolveReference(scopeStack, <<"x">>, 2, Len(scopeStack)))

FnNext ==
  \/ CallRender
  \/ CallSortLayers
  \/ CallIntersectRanges
  \/ CallIterate
  \/ CallResolveReference
  \/ CallNonLocalVariablePatterns
  \/ CallInjectionForMatch
  \/ CallDequeue
  \/ CallCombinedInjections
  \/ CallSortKey
  \/ CallInsertLayer
  \/ CallCompare
  \/ CallConfigure
  \/ CallRotateLeft
  \/ CallRotateSplice

FnSpec == FnInit /\ [][FnNext]_vars

(***************************************************************************)
(* The event stream the consumer has received.                             *)
(***************************************************************************)
Events == [k \in 1..Len(out) |-> out[k].event]
OfType(events, type) == SelectSeq(events, LAMBDA e : e.type = type)
SourceEvents == OfType(Events, "Source")
Finished == status = "done"

\* C1: the Source events, in emission order, are contiguous and do not overlap:
\* the first starts at byte 0 and each next one starts where the one before
\* ended; when the stream has ended the last one ends at len(source); and the
\* ByteOffset at which events are emitted never decreases.
SourceCoverage ==
  /\ \A k \in 1..Len(SourceEvents) :
        /\ SourceEvents[k].StartByte = (IF k = 1 THEN 0 ELSE SourceEvents[k - 1].EndByte)
        /\ SourceEvents[k].StartByte < SourceEvents[k].EndByte
  /\ \A k \in 1..(Len(out) - 1) : out[k].offset <= out[k + 1].offset
  /\ Len(out) > 0 => Last(out).offset <= ByteOffset
  /\ Finished =>
        /\ ByteOffset = Len(Source)
        /\ IF Len(SourceEvents) = 0 THEN Len(Source) = 0
           ELSE Last(SourceEvents).EndByte = Len(Source)

\* a finished run over two layers whose source arrived in three or more pieces
SourceCoverageWitness ==
  /\ Finished
  /\ Len(SourceEvents) >= 3
  /\ Len(layerTab) >= 2

\* The brackets of an event sequence: LayerStart and CaptureStart open, LayerEnd
\* and CaptureEnd close.  Nesting folds the sequence over the stack of the open
\* brackets; a close that does not meet an open bracket of its own kind on top
\* of the stack ends the fold with the stack <<"unmatched">>.
IsStart(e) == e.type \in {"LayerStart", "CaptureStart"}
IsEnd(e) == e.type \in {"LayerEnd", "CaptureEnd"}
Opener(e) == IF e.type = "LayerEnd" THEN "LayerStart" ELSE "CaptureStart"

RECURSIVE Nesting(_, _)
Nesting(events, open) ==
  IF events = <<>> THEN open
  ELSE IF IsStart(Head(events)) THEN Nesting(Tail(events), Append(open, Head(events).type))
  ELSE IF IsEnd(Head(events))
       THEN IF open # <<>> /\ Last(open) = Opener(Head(events))
            THEN Nesting(Tail(events), Front(open))
            ELSE <<"unmatched">>
  ELSE Nesting(Tail(events), open)

Count(events, type) == Len(OfType(events, type))
Prefix(events, n) == SubSeq(events, 1, n)

\* C2: in the event sequence of a finished run the brackets are balanced and
\* well nested: every LayerEnd and CaptureEnd closes the most recently opened
\* bracket still open, which is of its own kind, and none is left open.
BalancedBrackets == Finished => Nesting(Events, <<>>) = <<>>

\* C3: every LayerStart is followed by exactly one matching LayerEnd: no prefix
\* of the stream holds more LayerEnd than LayerStart events, and a finished run
\* holds as many of the one as of the other (the layer open at the end of the
\* stream is closed too).
LayerStartsMatched ==
  /\ \A n \in 0..Len(Events) :
        Count(Prefix(Events, n), "LayerEnd") <= Count(Prefix(Events, n), "LayerStart")
  /\ Finished => Count(Events, "LayerEnd") = Count(Events, "LayerStart")

\* the ends that the layers still hold on their HighlightEndStack
RECURSIVE OpenEnds(_)
OpenEnds(tab) ==
  IF tab = <<>> THEN 0 ELSE Len(Head(tab).HighlightEndStack) + OpenEnds(Tail(tab))

\* C4: every CaptureStart has exactly one matching CaptureEnd strictly
\* later: no prefix of the stream holds more CaptureEnd than CaptureStart events,
\* a finished run holds as many of the one as of the other, and at any time the
\* CaptureStart events produced (emitted or queued) exceed the CaptureEnd events
\* produced by the number of ends the layers hold on their HighlightEndStack.
CaptureStartsMatched ==
  /\ \A n \in 0..Len(Events) :
        Count(Prefix(Events, n), "CaptureEnd") <= Count(Prefix(Events, n), "CaptureStart")
  /\ Count(Events \o NextEvents, "CaptureStart")
       = Count(Events \o NextEvents, "CaptureEnd") + OpenEnds(layerTab)
  /\ Finished => Count(Events, "CaptureEnd") = Count(Events, "CaptureStart")

\* C5: of two consecutive events at one byte offset, neither a Source
\* event, the first is not a start (LayerStart, CaptureStart) when the second is
\* an end (LayerEnd, CaptureEnd): the closes at an offset come before the opens.
CloseBeforeOpen ==
  \A k \in 1..(Len(out) - 1) :
     (/\ out[k].event.type # "Source"
      /\ out[k + 1].event.type # "Source"
      /\ out[k].offset = out[k + 1].offset)
     => ~(IsStart(out[k].event) /\ IsEnd(out[k + 1].event))

(***************************************************************************)
(* What the capture stream of a layer (its Tree) holds.                    *)
(***************************************************************************)
CaptureNameOf(item) == CaptureNames[ItemCapture(item).Index + 1]
\* the theme index Configure gives the item's capture; nil for none
ThemeOf(item) == QueryConfiguration.HighlightIndices[ItemCapture(item).Index]
IsHighlightItem(item) ==
  /\ item.match.PatternIndex >= QueryConfiguration.HighlightsPatternIndex
  /\ ThemeOf(item) # Nil
\* the ranges for which the layer has a themed highlight capture
ThemedRanges(layer) ==
  { NodeRange(ItemNode(layer.Tree[k])) :
      k \in { j \in 1..Len(layer.Tree) : IsHighlightItem(layer.Tree[j]) } }
Within(r, ranges) ==
  \E k \in 1..Len(ranges) :
     ranges[k].StartByte <= r.StartByte /\ r.EndByte <= ranges[k].EndByte
\* layer `inner` was injected, directly or not, into the ranges of layer `outer`
NestedIn(inner, outer) ==
  /\ outer.Depth < inner.Depth
  /\ \A k \in 1..Len(inner.Ranges) : Within(inner.Ranges[k], outer.Ranges)
\* the CaptureStart events produced for the range by the layers in ptrs
StartsFor(range, ptrs) ==
  { k \in 1..Len(starts) : starts[k].range = range /\ starts[k].layer \in ptrs }

\* C6: when an outer layer and a layer injected into it both have a themed
\* highlight capture for one and the same byte range, a finished run has produced
\* exactly one CaptureStart for that range, and the outer layer produced it.
OvershadowOnce ==
  Finished =>
    \A o, i \in 1..Len(layerTab) :
       NestedIn(layerTab[i], layerTab[o]) =>
         \A r \in ThemedRanges(layerTab[o]) \cap ThemedRanges(layerTab[i]) :
            /\ Cardinality(StartsFor(r, {o, i})) = 1
            /\ StartsFor(r, {o, i}) = StartsFor(r, {o})

\* the items of a stream whose capture has the given name
ItemsNamed(tree, name) == { k \in 1..Len(tree) : CaptureNameOf(tree[k]) = name }
\* the themed highlight captures of the node of item k
HighlightsOn(tree, k) ==
  { j \in 1..Len(tree) : IsHighlightItem(tree[j]) /\ ItemNode(tree[j]) = ItemNode(tree[k]) }

\* C7: in a layer with one local.definition and no local.scope capture (the root
\* scope sees the definition), where the defined node has one highlight capture,
\* of theme index h, every local.reference of the same name that starts at or
\* after the end of the definition and has a highlight capture of its own is
\* emitted, by the end of the run, as CaptureStart(h).
DefinitionHighlightInherited ==
  Finished =>
    \A l \in 1..Len(layerTab) :
       \A d \in ItemsNamed(layerTab[l].Tree, nameLocalDefinition) :
          \A r \in ItemsNamed(layerTab[l].Tree, nameLocalReference) :
             (LET tree == layerTab[l].Tree
              IN /\ ItemsNamed(tree, nameLocalScope) = {}
                 /\ ItemsNamed(tree, nameLocalDefinition) = {d}
                 /\ Cardinality(HighlightsOn(tree, d)) = 1
                 /\ HighlightsOn(tree, r) # {}
                 /\ Utf8Text(ItemNode(tree[d]), Source) = Utf8Text(ItemNode(tree[r]), Source)
                 /\ ItemNode(tree[r]).StartByte >= ItemNode(tree[d]).EndByte)
             => \E k \in StartsFor(NodeRange(ItemNode(layerTab[l].Tree[r])), {l}) :
                   \E j \in HighlightsOn(layerTab[l].Tree, d) :
                      starts[k].highlight = Deref(ThemeOf(layerTab[l].Tree[j]))

\* the theme index of a capture name
ThemeIndex(name) == Deref(configureName(RecognizedNames, name))
\* the highlight of the one CaptureStart produced for the node [s, e) is h
StartedAs(s, e, h) ==
  /\ StartsFor(Node(s, e), {1}) # {}
  /\ \A k \in StartsFor(Node(s, e), {1}) : starts[k].highlight = h

\* C8: on  let x = 1; { let x = 2; use x; } use x;  the reference inside the
\* nested scope is emitted with the highlight of the inner definition, and the
\* reference after the nested scope with the highlight of the outer definition.
LocalShadowing ==
  (Finished /\ Source = SourceP5) =>
     /\ StartedAs(3, 4, ThemeIndex(<<"function">>))
     /\ StartedAs(5, 6, ThemeIndex(<<"variable", "parameter">>))

\* C9: a Source event emitted while layer L is the open layer (after its
\* LayerStart, before a LayerEnd) carries a range that lies within one of L's
\* included ranges, and within the ranges of every layer L is nested in.
SourceWithinLayerRanges ==
  \A k \in 1..Len(out) :
     (out[k].event.type = "Source" /\ out[k].layer # Nil) =>
        \A l \in 1..Len(layerTab) :
           (l = Deref(out[k].layer) \/ NestedIn(layerTab[Deref(out[k].layer)], layerTab[l]))
           => Within(out[k].event, layerTab[l].Ranges)

\* C10: on the source "<a>b</a>" whose element body is injected into a layer
\* with one themed capture, the events of the finished run are nested: the outer
\* layer's LayerEnd is the last event, after the inner layer's LayerEnd.
NestedLayerEvents ==
  (Finished /\ Source = SourceS3) =>
     Events = << eventLayerStart(RootLanguage),
                 eventSource(0, 3),
                 eventLayerStart(<<"A">>),
                 eventCaptureStart(ThemeIndex(<<"variable">>)),
                 eventSource(3, 4),
                 eventCaptureEnd,
                 eventLayerEnd,
                 eventSource(4, 8),
                 eventLayerEnd >>

\* the query of the root configuration yielded no capture: newIterLayers made
\* no layer and returned no error
RootCapturesNone == Len(layerTab) = 0 /\ status \in {"running", "hung", "done"}

\* C11: when the root query yields no capture for a non-empty source,
\* Highlight returns, and the events of the finished run are exactly
\* LayerStart(root language), Source(0, len(source)), LayerEnd.
NoCaptureEvents ==
  (RootCapturesNone /\ Len(Source) > 0) =>
     /\ status # "hung"
     /\ Finished => Events = << eventLayerStart(LanguageName),
                                eventSource(0, Len(Source)),
                                eventLayerEnd >>

\* what a consumer's stack holds after the events: it pushes on LayerStart and
\* CaptureStart and pops on LayerEnd and CaptureEnd
StackDepth(events) ==
  Count(events, "LayerStart") + Count(events, "CaptureStart")
    - Count(events, "LayerEnd") - Count(events, "CaptureEnd")
OpenLayers(events) == Count(events, "LayerStart") - Count(events, "LayerEnd")

\* C12: when a Source event is emitted a LayerStart has been emitted and is
\* not yet closed, and the consumer's stack is not empty; no LayerEnd or
\* CaptureEnd pops an empty stack; no CaptureStart precedes the first LayerStart.
LayerOpenAtSource ==
  \A k \in 1..Len(Events) :
     /\ Events[k].type = "Source" =>
           /\ OpenLayers(Prefix(Events, k - 1)) >= 1
           /\ StackDepth(Prefix(Events, k - 1)) >= 1
     /\ IsEnd(Events[k]) => StackDepth(Prefix(Events, k - 1)) >= 1
     /\ Events[k].type = "CaptureStart" => Count(Prefix(Events, k - 1), "LayerStart") >= 1

LayerOpenAtSourceWitness ==
  /\ Finished
  /\ Count(Events, "Source") >= 2
  /\ Count(Events, "LayerEnd") >= 1
  /\ Count(Events, "CaptureEnd") >= 1

(***************************************************************************)
(* Configure.                                                              *)
(***************************************************************************)
ConfigureCalled == call # Nil /\ Deref(call).fn = "Configure"
\* the list of recognised names of the call, and the index it gave a capture name
Recognized == Deref(call).args[1]
ThemeCaptureIndex(name) ==
  (CHOOSE k \in 1..Len(ThemeCaptureNames) : ThemeCaptureNames[k] = name) - 1
MappedTo(name) == Deref(call).result[ThemeCaptureIndex(name)]
\* the lengths of the dot-separated prefixes of the name that are recognised
RecognizedPrefixes(name) ==
  { n \in 1..Len(name) : IndexIn(Recognized, SubSeq(name, 1, n)) # Nil }
Longest(lengths) == CHOOSE n \in lengths : \A m \in lengths : m <= n

BuiltinThemeMatching ==
  (/\ ConfigureCalled
   /\ IndexIn(Recognized, <<"function", "builtin">>) # Nil
   /\ IndexIn(Recognized, <<"function">>) = Nil
   /\ IndexIn(Recognized, <<"function", "method">>) = Nil) =>
     /\ MappedTo(<<"function">>) = IndexIn(Recognized, <<"function", "builtin">>)
     /\ MappedTo(<<"function", "builtin", "constructor">>)
          = IndexIn(Recognized, <<"function", "builtin">>)
     /\ MappedTo(<<"function", "method">>) = Nil

(***************************************************************************)
(* Cancellation and errors.                                                *)
(***************************************************************************)
\* C15: once the context is cancelled no new event is computed: the events
\* yielded after the cancellation are events that were queued in NextEvents
\* when it was tripped, in their order (none, when it was tripped before the
\* first pull); the stream does not end with (nil, nil); and when it has ended
\* it has yielded exactly one error, the context's.
CancelStopsEvents ==
  atCancel # Nil =>
     /\ Len(out) <= Deref(atCancel).yielded + Len(Deref(atCancel).queued)
     /\ \A k \in (Deref(atCancel).yielded + 1)..Len(out) :
           out[k].event = Deref(atCancel).queued[k - Deref(atCancel).yielded]
     /\ status \in {"running", "failed"}
     /\ status = "failed" =>
           /\ errs = << [err |-> "context canceled", at |-> Len(out)] >>
           /\ Len(out) = Deref(atCancel).yielded + Len(Deref(atCancel).queued)

CancelStopsEventsWitness ==
  /\ atCancel # Nil
  /\ status = "failed"
  /\ Len(Deref(atCancel).queued) >= 1
  /\ Len(out) = Deref(atCancel).yielded + Len(Deref(atCancel).queued)

\* C16: a run yields at most one error, and yields nothing after it: the
\* stream has failed exactly when one error was yielded, no event follows
\* the error, and when newIterLayers fails on the root layer the error is the
\* only thing the stream yields.
ErrorIsTerminal ==
  /\ Len(errs) <= 1
  /\ status = "failed" <=> Len(errs) = 1
  /\ Len(errs) = 1 => errs[1].at = Len(out)
  /\ status = "failing" => out = <<>> /\ errs = <<>>
  /\ (status = "failed" /\ Len(layerTab) = 0) => out = <<>>

ErrorIsTerminalWitness ==
  /\ status = "failed"
  /\ errs[1].err = "error setting language"
  /\ Len(layerTab) > 0
  /\ Len(out) >= 2

(***************************************************************************)
(* Termination.                                                            *)
(***************************************************************************)
\* C17: every run over a finite source and finite capture streams ends: next
\* returns (nil, nil) or an error after finitely many pulls.
StreamTerminates == <>(status \in {"done", "failed"})

(***************************************************************************)
(* The sort key.                                                           *)
(***************************************************************************)
CompareCalled == call # Nil /\ Deref(call).fn = "compare"
KeyA == Deref(call).args[1]
KeyB == Deref(call).args[2]
KeyC == Deref(call).args[3]
Compared == Deref(call).result
\* a comes before b in the lexicographic order on (offset, start, depth), with
\* start = false before start = true
LexLess(a, b) ==
  \/ a.offset < b.offset
  \/ a.offset = b.offset /\ ~a.start /\ b.start
  \/ a.offset = b.offset /\ a.start = b.start /\ a.depth < b.depth

\* C18: compare is the three-way comparison of the lexicographic order on
\* (offset, start, depth) with start = false first: its result is -1, 0 or 1,
\* is 0 only for equal keys, changes sign when the keys are swapped, and is
\* transitive; with the key's depth the negated layer depth, at equal offset
\* and start the key of the deeper layer compares smaller.
CompareIsOrder ==
  CompareCalled =>
     /\ Compared.ab \in {-1, 0, 1}
     /\ Compared.ab = 0 <=> KeyA = KeyB
     /\ Compared.ab = 0 - Compared.ba
     /\ Compared.ab = -1 <=> LexLess(KeyA, KeyB)
     /\ (Compared.ab = -1 /\ Compared.bc = -1) => Compared.ac = -1
     /\ (Compared.ab <= 0 /\ Compared.bc <= 0) => Compared.ac <= 0
     /\ (/\ KeyA.offset = KeyB.offset
         /\ KeyA.start = KeyB.start
         /\ 0 - KeyA.depth > 0 - KeyB.depth) => Compared.ab = -1

CompareIsOrderWitness ==
  /\ CompareCalled
  /\ KeyA.offset = KeyB.offset /\ KeyA.start = KeyB.start
  /\ 0 - KeyA.depth > 0 - KeyB.depth
  /\ KeyB.offset = KeyC.offset /\ ~KeyB.start /\ KeyC.start
  /\ Compared.ab = -1 /\ Compared.bc = -1 /\ Compared.ac = -1

(***************************************************************************)
(* rotateLeft.                                                             *)
(***************************************************************************)
RotateLeftCalled == call # Nil /\ Deref(call).fn = "rotateLeft"
RotateSpliceCalled == call # Nil /\ Deref(call).fn = "rotateSplice"
Elements(s) == { s[k] : k \in 1..Len(s) }

\* C19: rotateLeft(s, i) returns the elements s[i:] followed by s[:i], as many
\* as s has; and when the rotated prefix h.Layers[:to] is spliced back in front
\* of h.Layers[to:], the elements from `to` onwards are where they were and
\* the slice holds the elements it held, each once.
RotateLeftSplice ==
  /\ RotateLeftCalled =>
        LET s == Deref(call).args[1]
            i == Deref(call).args[2]
            r == Deref(call).result
        IN /\ Len(r) = Len(s)
           /\ \A k \in 1..Len(s) : r[k] = s[((k - 1 + i) % Len(s)) + 1]
  /\ RotateSpliceCalled =>
        LET s == Deref(call).args[1]
            to == Deref(call).args[2] + 1
            r == Deref(call).result
        IN /\ Len(r) = Len(s)
           /\ \A k \in (to + 1)..Len(s) : r[k] = s[k]
           /\ Elements(r) = Elements(s)

(***************************************************************************)
(* Injections of a language the callback does not know.                    *)
(***************************************************************************)
\* the language an injection capture of the root layer names
InjectedLanguage(item) ==
  injectionForMatch(Configuration(LanguageName), LanguageName, item.match, Source).languageName
\* the stream has injection captures, and the callback returns nil for each
UnknownOnly(stream) ==
  /\ HasInjections(stream)
  /\ \A k \in 1..Len(stream) :
        IsInjectionItem(stream[k]) => InjectionCallback(InjectedLanguage(stream[k])) = Nil
\* the capture and Source events among the events
CaptureAndSource(events) == SelectSeq(events, LAMBDA e : e.type \notin {"LayerStart", "LayerEnd"})
EventsOf(yields) == [k \in 1..Len(yields) |-> yields[k].event]

\* C20: when the callback returns nil for the language of every injection
\* capture, no layer is made besides the root layer, the stream holds one
\* LayerStart, of the root language, and its capture and Source events are
\* those of the run over the same captures without the injection captures.
UnknownLanguageNoLayer ==
  /\ (prevRun = Nil /\ Len(layerTab) > 0 /\ UnknownOnly(layerTab[1].Tree)) =>
        /\ Len(layerTab) = 1
        /\ Count(Events, "LayerStart") <= 1
        /\ Finished => /\ Count(Events, "LayerStart") = 1
                       /\ Events[1] = eventLayerStart(LanguageName)
  /\ (prevRun # Nil /\ UnknownOnly(Deref(prevRun).stream) /\ Finished) =>
        CaptureAndSource(EventsOf(Deref(prevRun).out)) = CaptureAndSource(Events)

UnknownLanguageNoLayerWitness ==
  /\ prevRun # Nil
  /\ UnknownOnly(Deref(prevRun).stream)
  /\ Finished
  /\ Count(Events, "CaptureStart") >= 1
  /\ Count(Events, "Source") >= 2

(***************************************************************************)
(* The order of the layers.                                                *)
(***************************************************************************)
KeyOf(ptr) == sortKey(layerTab[ptr])

\* C21: between the steps of next, each of which ends with sortLayers, the head
\* of a non-empty layer list has a sort key, and no other layer of the list has
\* a smaller one: the head is the layer with the earliest highlight boundary.
HeadIsEarliest ==
  (Running /\ Len(Layers) > 0) =>
     /\ KeyOf(Layers[1]) # Nil
     /\ \A k \in 2..Len(Layers) :
           KeyOf(Layers[k]) # Nil =>
              ~lessThan(Deref(KeyOf(Layers[k])), Deref(KeyOf(Layers[1])))

InsertCalled == call # Nil /\ Deref(call).fn = "insertLayer"
\* the key of the layer at position k (from 1) of a list of pointers into tab
KeyAt(layers, tab, k) == sortKey(tab[layers[k]])
\* positions 2.. of the list (indices 1.. of the code) hold keys in non-decreasing order
OrderedBehindHead(layers, tab) ==
  /\ \A k \in 2..Len(layers) : KeyAt(layers, tab, k) # Nil
  /\ \A k \in 2..(Len(layers) - 1) :
        ~greaterThan(Deref(KeyAt(layers, tab, k)), Deref(KeyAt(layers, tab, k + 1)))
\* the positions behind the head whose key is strictly greater than key
GreaterBehindHead(layers, tab, key) ==
  { k \in 2..Len(layers) : greaterThan(Deref(KeyAt(layers, tab, k)), key) }
First(positions) == CHOOSE k \in positions : \A j \in positions : k <= j

\* C22: insertLayer puts a new layer that has a key in front of the first layer
\* behind the head whose key is strictly greater, at the end when there is none,
\* and the layers behind the head stay in non-decreasing key order; a new layer
\* without a key is not inserted.
InsertKeepsOrder ==
  (InsertCalled /\ OrderedBehindHead(Deref(call).args[1], Deref(call).args[3])) =>
     LET layers == Deref(call).args[1]
         layer == Deref(call).args[2]
         tab == Deref(call).args[3]
         r == Deref(call).result
     IN IF sortKey(tab[layer]) = Nil
        THEN r = layers
        ELSE /\ OrderedBehindHead(r, tab)
             /\ r = IF GreaterBehindHead(layers, tab, Deref(sortKey(tab[layer]))) = {}
                    THEN Append(layers, layer)
                    ELSE slicesInsert(layers,
                           First(GreaterBehindHead(layers, tab, Deref(sortKey(tab[layer])))) - 1,
                           layer)

SortKeyCalled == call # Nil /\ Deref(call).fn = "sortKey"
Smaller(a, b) == IF a <= b THEN a ELSE b

\* C23: the sort key of a layer is nil exactly when the layer has neither a
\* pending capture nor a pending end; otherwise its depth is the negated layer
\* depth, its offset the smaller of the capture's start and the top of
\* HighlightEndStack, and start is true exactly when the capture is pending and
\* its start is strictly smaller than the pending end or no end is pending.
SortKeyIsEarliestBoundary ==
  SortKeyCalled =>
     LET layer == Deref(call).args[1]
         key == Deref(call).result
         hasStart == Len(layer.Captures) > 0
         hasEnd == Len(layer.HighlightEndStack) > 0
         capStart == ItemNode(layer.Captures[1]).StartByte
         endTop == Last(layer.HighlightEndStack)
     IN /\ key = Nil <=> (~hasStart /\ ~hasEnd)
        /\ key # Nil =>
              /\ Deref(key).depth = 0 - layer.Depth
              /\ Deref(key).offset =
                    (IF hasStart /\ hasEnd THEN Smaller(capStart, endTop)
                     ELSE IF hasStart THEN capStart ELSE endTop)
              /\ Deref(key).start <=> (hasStart /\ (~hasEnd \/ capStart < endTop))

SortKeyIsEarliestBoundaryWitness ==
  /\ SortKeyCalled
  /\ Len(Deref(call).args[1].Captures) > 0
  /\ Len(Deref(call).args[1].HighlightEndStack) > 0
  /\ ItemNode(Deref(call).args[1].Captures[1]).StartByte
       = Last(Deref(call).args[1].HighlightEndStack)
  /\ Deref(call).args[1].Depth > 0
  /\ ~Deref(Deref(call).result).start

\* the layers of the table that still have a pending capture or a pending end
Pending == { p \in 1..Len(layerTab) : KeyOf(p) # Nil }
Listed == { Layers[k] : k \in 1..Len(Layers) }

\* C24: while the iteration runs and when it has ended without error, every layer
\* that still has a pending capture or a pending highlight end is in h.Layers:
\* sortLayers and insertLayer drop only layers whose capture stream is exhausted
\* and whose HighlightEndStack is empty.
PendingLayersKept ==
  status \in {"running", "done"} => Pending \subseteq Listed

\* the cursors in the pool, and those of the layers in h.Layers
Pooled == { cursors[k] : k \in 1..Len(cursors) }
InUse == { layerTab[p].Cursor : p \in Listed }

\* C25: no cursor is in the pool twice, no cursor is in the pool while a layer of
\* h.Layers uses it, and after a run that ended without error the pool holds every
\* cursor that was created.
CursorsReturnedOnce ==
  status \in {"running", "done"} =>
     /\ \A j, k \in 1..Len(cursors) : cursors[j] = cursors[k] => j = k
     /\ Pooled \cap InUse = {}
     /\ status = "done" => Pooled = 1..cursorsMade

(***************************************************************************)
(* newIterLayers.                                                          *)
(***************************************************************************)
\* C26: newIterLayers returns: no call of it, for the root layer or for an
\* injection, is left repeating its loop over an item whose query yields no
\* capture.
NewIterLayersReturns == status # "hung"

DequeueCalled == call # Nil /\ Deref(call).fn = "dequeue"

CombinedCalled == call # Nil /\ Deref(call).fn = "combinedInjections"
\* what injectionForMatch resolves for a match of the call
ResolvedBy(match) ==
  injectionForMatch(Configuration(RootLanguage), RootLanguage, match, GenSource)
\* the patterns of the call with a match that resolves a language the callback
\* knows and a content node
Enqueuing(matches) ==
  { matches[k].PatternIndex : k \in
      { j \in 1..Len(matches) : /\ ResolvedBy(matches[j]).languageName # <<>>
                                /\ ResolvedBy(matches[j]).contentNode # Nil
                                /\ InjectionCallback(ResolvedBy(matches[j]).languageName) # Nil } }

\* C28: the combined injections block enqueues one item, at depth + 1, for every
\* pattern whose matches resolve a non-empty language that the callback knows
\* and a content node, and none for the other patterns.
CombinedInjectionEnqueued ==
  CombinedCalled =>
     /\ Len(Deref(call).result) = Cardinality(Enqueuing(Deref(call).args[1]))
     /\ \A k \in 1..Len(Deref(call).result) :
           Deref(call).result[k].depth = Deref(call).args[2] + 1

(***************************************************************************)
(* The language of an injection.                                           *)
(***************************************************************************)
InjectionForMatchCalled == call # Nil /\ Deref(call).fn = "injectionForMatch"
\* the captures of the match with the given capture name
CapturesNamed(match, name) ==
  SelectSeq(match.Captures, LAMBDA c : c.Index = Deref(CaptureIndexOf(name)))
\* the text of the injection.language capture, empty without one
LanguageText(match) ==
  IF CapturesNamed(match, nameInjectionLanguage) = <<>>
  THEN <<>>
  ELSE Utf8Text(Last(CapturesNamed(match, nameInjectionLanguage)).Node, SourceNested)
\* the positions of the properties that name a language
Naming(settings) ==
  { k \in 1..Len(settings) :
      settings[k].Key \in {captureInjectionLanguage, captureInjectionSelf,
                           captureInjectionParent} }
NamedBy(property, config) ==
  IF property.Key = captureInjectionLanguage THEN property.Value
  ELSE IF property.Key = captureInjectionSelf THEN config.LanguageName
  ELSE RootLanguage

\* C29: without one of the reserved capture indices injectionForMatch returns
\* the empty language and no content node; otherwise the language is the text of
\* the injection.language capture when that is not empty, else what the first
\* injection.language, injection.self or injection.parent property names (its
\* value, the configuration's language, the parent's language), else empty; the
\* content node is the injection.content capture, and include-children is set
\* exactly when the pattern has the injection.include-children property.
InjectionPriorities ==
  InjectionForMatchCalled =>
     LET config == Deref(call).args[1]
         match == Deref(call).args[2]
         r == Deref(call).result
         settings == PropertySettings(match.PatternIndex)
     IN IF config.InjectionContentCaptureIndex = Nil
           \/ config.InjectionLanguageCaptureIndex = Nil
        THEN r = [languageName |-> <<>>, contentNode |-> Nil, includeChildren |-> FALSE]
        ELSE /\ r.languageName =
                  (IF LanguageText(match) # <<>> THEN LanguageText(match)
                   ELSE IF Naming(settings) = {} THEN <<>>
                   ELSE NamedBy(settings[First(Naming(settings))], config))
             /\ r.contentNode = Ptr(Last(CapturesNamed(match, nameInjectionContent)).Node)
             /\ r.includeChildren <=>
                  \E k \in 1..Len(settings) :
                     settings[k].Key = captureInjectionIncludeChildren

\* a match with a language capture, of a pattern with more than one naming
\* property and include-children: the capture's text is the language
InjectionPrioritiesWitness ==
  /\ InjectionForMatchCalled
  /\ Deref(call).args[1] = Configuration(<<"B">>)
  /\ Cardinality(Naming(PropertySettings(Deref(call).args[2].PatternIndex))) > 1
  /\ LanguageText(Deref(call).args[2]) = <<"b">>
  /\ Deref(call).result.languageName = <<"b">>
  /\ Deref(call).result.includeChildren

\* the layers at `depth` whose stream had an injection.parent match that has been
\* taken from the stream
ParentInjectedAt(depth) ==
  { p \in 1..Len(layerTab) :
      /\ layerTab[p].Depth = depth
      /\ \E k \in 1..Len(layerTab[p].Tree) :
            /\ PropertySettings(layerTab[p].Tree[k].match.PatternIndex)
                  = <<[Key |-> captureInjectionParent, Value |-> <<>>]>>
            /\ \A j \in 1..Len(layerTab[p].Captures) :
                  layerTab[p].Captures[j] # layerTab[p].Tree[k] }

\* C30: once a layer at depth 2 has processed a match of an injection.parent
\* pattern, there is a layer at depth 3 for the injected range, and its language
\* is that of the layer at depth 1 whose injection created the depth-2 layer.
InjectionParentIsParentLayer ==
  (status \in {"running", "done"} /\ ParentInjectedAt(2) # {}) =>
     \E q \in 1..Len(layerTab) :
        /\ layerTab[q].Depth = 3
        /\ \E p \in 1..Len(layerTab) :
              layerTab[p].Depth = 1 /\ layerTab[q].Config = layerTab[p].Config

(***************************************************************************)
(* The configuration.                                                      *)
(***************************************************************************)
NonLocalCalled == call # Nil /\ Deref(call).fn = "nonLocalVariablePatterns"

\* C31: nonLocalVariablePatterns has one entry for every pattern of the query,
\* and entry i is true exactly when pattern i has a negative predicate on the
\* property local: every pattern index is in range.
NonLocalEntryPerPattern ==
  NonLocalCalled =>
     /\ Len(Deref(call).result) = Len(Deref(call).args[1])
     /\ \A i \in 1..Len(Deref(call).args[1]) :
           i <= Len(Deref(call).result)
             /\ (Deref(call).result[i] <=> Deref(call).args[1][i].negLocal)

(***************************************************************************)
(* The highlight captures of one node.                                     *)
(***************************************************************************)
\* the highlight-pattern captures of the layer's stream for the range, in order
HighlightsFor(layer, range) ==
  SelectSeq(layer.Tree,
            LAMBDA item : /\ item.match.PatternIndex >= QueryConfiguration.HighlightsPatternIndex
                          /\ NodeRange(ItemNode(item)) = range)
\* the locals captures of the layer's stream for the range
LocalsFor(layer, range) ==
  { CaptureNameOf(layer.Tree[k]) :
      k \in { j \in 1..Len(layer.Tree) :
                /\ layer.Tree[j].match.PatternIndex < QueryConfiguration.HighlightsPatternIndex
                /\ NodeRange(ItemNode(layer.Tree[j])) = range } }
\* the captures that are not skipped: the first one, and of the later ones of a
\* local variable's node those whose pattern is not disabled for local variables
Surviving(layer, range) ==
  IF LocalsFor(layer, range) = {}
  THEN HighlightsFor(layer, range)
  ELSE <<Head(HighlightsFor(layer, range))>> \o
       SelectSeq(Tail(HighlightsFor(layer, range)),
                 LAMBDA item : ~PatternAt(item.match.PatternIndex).negLocal)
\* the ranges of a layer with several highlight captures, all themed, on a node
\* that is no local variable or is a local definition
OvershadowedRanges(layer) ==
  { r \in { NodeRange(ItemNode(layer.Tree[k])) : k \in 1..Len(layer.Tree) } :
      /\ Len(HighlightsFor(layer, r)) > 1
      /\ \A k \in 1..Len(HighlightsFor(layer, r)) : ThemeOf(HighlightsFor(layer, r)[k]) # Nil
      /\ LocalsFor(layer, r) \subseteq {nameLocalDefinition} }

\* C32: in a finished run of a single layer, a node with several highlight
\* captures has exactly one CaptureStart, and its highlight is that of the last
\* capture that is not skipped; on a local definition's node the captures of
\* patterns disabled for local variables are skipped.
OvershadowLastSurvivor ==
  (Finished /\ Len(layerTab) = 1) =>
     \A r \in OvershadowedRanges(layerTab[1]) :
        /\ Cardinality(StartsFor(r, {1})) = 1
        /\ \A k \in StartsFor(r, {1}) :
              starts[k].highlight = Deref(ThemeOf(Last(Surviving(layerTab[1], r))))

(***************************************************************************)
(* Local variables.                                                        *)
(***************************************************************************)
ResolveCalled == call # Nil /\ Deref(call).fn = "resolveReference"
\* the definitions of a scope that a reference to name at startByte can mean
Meant(scope, name, startByte) ==
  { k \in 1..Len(scope.LocalDefs) :
      scope.LocalDefs[k].Name = name /\ scope.LocalDefs[k].Range.EndByte <= startByte }
\* the scopes the search may look at: from the top down to the first scope that
\* does not inherit
Searched(scopeStack) ==
  { k \in 1..Len(scopeStack) : \A j \in (k + 1)..Len(scopeStack) : scopeStack[j].Inherits }
\* the searched scopes that hold a definition the reference can mean
Defining(scopeStack, name, startByte) ==
  { k \in Searched(scopeStack) : Meant(scopeStack[k], name, startByte) # {} }
Topmost(positions) == CHOOSE k \in positions : \A j \in positions : j <= k

ScopeStackRooted ==
  \A p \in 1..Len(layerTab) :
     /\ Len(layerTab[p].ScopeStack) > 0
     /\ layerTab[p].ScopeStack[1].Range = rootScope.Range
     /\ ~layerTab[p].ScopeStack[1].Inherits

\* a layer whose stream had a local.scope capture and a capture that starts after
\* the end of that scope: the scope was pushed and removed again
ScopeStackRootedWitness ==
  \E p \in 1..Len(layerTab) :
     /\ layerTab[p].Captures = <<>>
     /\ Len(layerTab[p].ScopeStack) = 1
     /\ \E j, k \in 1..Len(layerTab[p].Tree) :
           /\ j < k
           /\ CaptureNameOf(layerTab[p].Tree[j]) = nameLocalScope
           /\ ItemNode(layerTab[p].Tree[k]).StartByte > ItemNode(layerTab[p].Tree[j]).EndByte

(***************************************************************************)
(* The pending highlight ends.                                             *)
(***************************************************************************)
\* the entries of a HighlightEndStack do not increase from bottom to top
EndsOrdered(stack) == \A k \in 1..(Len(stack) - 1) : stack[k] >= stack[k + 1]
\* a step that takes an end from layer p's stack takes the top, and no end that
\* stays is smaller than it
TakesNearestEnd(p) ==
  (/\ p <= Len(layerTab')
   /\ layerTab'[p].Tree = layerTab[p].Tree
   /\ Len(layerTab'[p].HighlightEndStack) < Len(layerTab[p].HighlightEndStack)) =>
     /\ layerTab'[p].HighlightEndStack = Front(layerTab[p].HighlightEndStack)
     /\ \A k \in 1..Len(layerTab'[p].HighlightEndStack) :
           layerTab'[p].HighlightEndStack[k] >= Last(layerTab[p].HighlightEndStack)

\* C35: with captures delivered in tree order, every layer's HighlightEndStack
\* is non-increasing from bottom to top in every reachable state, and every step
\* that closes a highlight takes the top of the stack, the smallest pending end
\* of the layer: the ends of a layer are closed in non-decreasing order.
EndStackNearestOnTop ==
  /\ [](\A p \in 1..Len(layerTab) : EndsOrdered(layerTab[p].HighlightEndStack))
  /\ [][\A p \in 1..Len(layerTab) : TakesNearestEnd(p)]_vars

\* a layer that opened two nested highlights and has closed the inner one before
\* its next capture
EndStackNearestOnTopWitness ==
  \E p \in 1..Len(layerTab) :
     /\ Len(layerTab[p].HighlightEndStack) = 1
     /\ Len(layerTab[p].Captures) > 0
     /\ \E j, k \in 1..Len(starts) :
           /\ j < k
           /\ starts[j].layer = p /\ starts[k].layer = p
           /\ starts[k].range.EndByte < starts[j].range.EndByte
           /\ starts[k].range.EndByte <= ByteOffset
           /\ layerTab[p].HighlightEndStack[1] = starts[j].range.EndByte

(***************************************************************************)
(* The peekable capture iterator.                                          *)
(***************************************************************************)
IterateCalled == call # Nil /\ Deref(call).fn = "iterate"
\* the number of Next calls among the first k calls
NextsUpTo(ops, k) == Cardinality({ j \in 1..k : ops[j] = "Next" })
\* the item at position i (from 0) of the stream, or no item
ItemAt(stream, i) ==
  IF i < Len(stream) THEN [item |-> Ptr(stream[i + 1]), ok |-> TRUE]
  ELSE [item |-> Nil, ok |-> FALSE]

\* C36: every call, Next or Peek, returns the item of the underlying stream at
\* the position given by the number of Next calls made before it, and no item
\* beyond the end of the stream: Next delivers the stream's items in order and
\* each once, Peek returns what the following Next returns without consuming
\* it, and repeated Peeks return the same item.
PeekableDeliversStream ==
  IterateCalled =>
     /\ Len(Deref(call).result) = Len(Deref(call).args[2])
     /\ \A k \in 1..Len(Deref(call).args[2]) :
           Deref(call).result[k]
             = ItemAt(Deref(call).args[1], NextsUpTo(Deref(call).args[2], k - 1))

\* Peek, Peek, Next, then a Peek on the exhausted stream of one item
PeekableDeliversStreamWitness ==
  /\ IterateCalled
  /\ Len(Deref(call).args[1]) = 1
  /\ Deref(call).args[2] = <<"Peek", "Peek", "Next", "Peek">>
  /\ Deref(call).result[3].ok
  /\ ~Deref(call).result[4].ok

(***************************************************************************)
(* The ranges of an injection.                                             *)
(***************************************************************************)
IntersectCalled == call # Nil /\ Deref(call).fn = "intersectRanges"
Covers(range, b) == range.StartByte <= b /\ b < range.EndByte
CoveredBy(ranges, b) == \E k \in 1..Len(ranges) : Covers(ranges[k], b)
\* the bytes of the content nodes that lie in a parent range and, unless the
\* children are included, in no child of their node
InjectedBytes(parentRanges, nodes, includesChildren) ==
  { b \in 0..MaxByte :
      /\ CoveredBy(parentRanges, b)
      /\ \E k \in 1..Len(nodes) :
            /\ Covers(nodes[k], b)
            /\ includesChildren \/ ~CoveredBy(nodes[k].Children, b) }
\* ranges is a sorted list of non-empty, pairwise disjoint ranges that cover
\* exactly the injected bytes of the call
ExactRanges(ranges) ==
  /\ \A k \in 1..Len(ranges) : ranges[k].StartByte < ranges[k].EndByte
  /\ \A k \in 1..(Len(ranges) - 1) : ranges[k].EndByte <= ranges[k + 1].StartByte
  /\ { b \in 0..MaxByte : CoveredBy(ranges, b) }
       = InjectedBytes(Deref(call).args[1], Deref(call).args[2], Deref(call).args[3])

\* C37: for sorted, disjoint, non-empty parent ranges and content nodes in
\* document order, the ranges intersectRanges gives the iterator are sorted,
\* non-empty and pairwise disjoint, and cover exactly the bytes of the content
\* nodes that lie in a parent range and, when the children are not included, in
\* no direct child of their node.
IntersectionExact == IntersectCalled => ExactRanges(Deref(call).result.stub)

\* the same property of the intersectRanges of highlight.go
IntersectionExactInHighlightGo == IntersectCalled => ExactRanges(Deref(call).result.full)

(***************************************************************************)
(* The switch from one layer to another.                                   *)
(***************************************************************************)
\* next is past its checks and the head layer is not the layer of the last event
SwitchDue ==
  /\ Live
  /\ Len(NextEvents) = 0
  /\ Len(Layers) > 0
  /\ Ptr(Layers[1]) # LastLayer
\* the LayerStart of the head layer
HeadLayerStart == eventLayerStart(Configuration(HeadLayer.Config).LanguageName)
\* what a step that switches to the head layer does and leaves alone
SwitchFrame ==
  /\ LastLayer' = Ptr(Layers[1])
  /\ ByteOffset' = ByteOffset
  /\ Len(out') = Len(out) + 1
  /\ IF LastLayer # Nil
     THEN out'[Len(out')].event = eventLayerEnd /\ NextEvents' = <<HeadLayerStart>>
     ELSE out'[Len(out')].event = HeadLayerStart /\ NextEvents' = <<>>
  /\ DOMAIN layerTab' = DOMAIN layerTab
  /\ \A p \in DOMAIN layerTab :
        /\ layerTab'[p].Captures = layerTab[p].Captures
        /\ layerTab'[p].HighlightEndStack = layerTab[p].HighlightEndStack
\* a LayerEnd is followed at once by a LayerStart: yielded, or next in the queue
StartFollowsEnd ==
  \A k \in 1..Len(Events) :
     Events[k].type = "LayerEnd" =>
        IF k < Len(Events)
        THEN Events[k + 1].type = "LayerStart"
        ELSE NextEvents # <<>> /\ Head(NextEvents).type = "LayerStart"

\* C38: when the head layer is not the layer of the last event, next emits a
\* LayerEnd (only if there was a last layer) and right after it the LayerStart
\* with the head layer's language name, and leaves ByteOffset and the captures
\* and pending ends of every layer as they were; so at every point of the
\* stream the LayerStart events are as many as the LayerEnd events, or one more.
LayerSwitchFrame ==
  /\ [](/\ StartFollowsEnd
        /\ \A n \in 0..Len(Events) : OpenLayers(Prefix(Events, n)) \in {0, 1})
  /\ [][SwitchDue /\ LastLayer' # LastLayer => SwitchFrame]_vars

\* a run has switched from one layer to another and gone on in the new layer
LayerSwitchFrameWitness ==
  \E k \in 2..(Len(Events) - 2) :
     /\ Events[k].type = "LayerEnd"
     /\ Events[k + 1] = eventLayerStart(Configuration(layerTab[Deref(out[k + 1].layer)].Config).LanguageName)
     /\ out[k + 1].offset = out[k].offset
     /\ Events[k + 2].type \in {"Source", "CaptureStart"}

(***************************************************************************)
(* The layers of the list across sortLayers.                               *)
(***************************************************************************)
SortLayersCalled == call # Nil /\ Deref(call).fn = "sortLayers"
\* the layers of the list from the first one that has a key
RECURSIVE Unretired(_, _)
Unretired(layers, tab) ==
  IF layers = <<>> \/ sortKey(tab[Head(layers)]) # Nil
  THEN layers
  ELSE Unretired(Tail(layers), tab)
\* list holds each layer of kept once and no other
Reordering(list, kept) ==
  /\ Len(list) = Len(kept)
  /\ \A k \in 1..Len(kept) : \E j \in 1..Len(list) : list[j] = kept[k]

\* C39: sortLayers only reorders and retires: the list it leaves holds exactly
\* the layers of the list before it, less the layers without a key retired
\* from its head, each of them once, whatever the length of the list and the
\* spare capacity of its array.
SortLayersReorders ==
  SortLayersCalled =>
     Reordering(Deref(call).result, Unretired(Deref(call).args[1], Deref(call).args[2]))

(***************************************************************************)
(* The span tags of the rendered HTML.                                     *)
(***************************************************************************)
RenderCalled == call # Nil /\ Deref(call).fn = "Render"
Tags(output, tag) == Len(SelectSeq(output, LAMBDA o : o.tag = tag))

\* C40: in the HTML rendered from a well-nested event stream the span tags are
\* well formed: no prefix of the output holds more </span> than <span tags and
\* the whole output holds as many of the one as of the other, also when a
\* Source event inside an injected layer holds a newline while captures are open.
SpansWellFormed ==
  RenderCalled =>
     /\ \A n \in 0..Len(Deref(call).result) :
           Tags(Prefix(Deref(call).result, n), "</span>")
             <= Tags(Prefix(Deref(call).result, n), "<span")
     /\ Tags(Deref(call).result, "</span>") = Tags(Deref(call).result, "<span")

====
